---- MODULE Spec2Model ----
(***************************************************************************)
(* Fan-wheel generators of SIL_PPT:                                        *)
(*   brand        src/graphics/Slide 2/wheel_generator_brand.py            *)
(*   dynamic      src/graphics/slide 2/wheel_generator_dynamic.py          *)
(*   professional src/graphics/slide 2/generate_fan_wheel_with_logos.py    *)
(* A Python str is a sequence of one-character strings, so that split,     *)
(* join, lower, replace and strip are computed and not assumed.            *)
(***************************************************************************)
EXTENDS Integers, Sequences, FiniteSets, TLC

VARIABLES
    \* ---- behavior-text formatting (one call of a formatting routine)
    formatter,      \* which routine was called, "" before the call
    community,      \* row['COMMUNITY'], argument of format_behavior_text
    category,       \* row['CATEGORY'], argument of simple_behavior_text
    merchant,       \* row['MERCHANT'], argument of both
    row_behavior,   \* row['behavior'] as generate_professional_wheel reads it
    behavior        \* the formatted string, '' before the call

VARIABLES
    \* ---- one process running a wheel generator
    variant,        \* "brand" | "dynamic" | "professional": which script runs
    brandfetch_api, \* self.brandfetch_api is set (BRANDFETCH_API_KEY was present)
    logos,          \* the files of logos/: path -> content, Absent when no file
    renders,        \* generate_wheel calls begun so far
    pc,             \* where generate_wheel is
    wheel_data_df,  \* the table being rendered, one record per row
    row_i,          \* 0-based counter of the loop generate_wheel is in
    step,           \* download_or_generate_logo: the step in progress
    cand,           \* 1-based position in domains_to_try of the step in progress
    tried,          \* the steps the current/last download_or_generate_logo call
                    \* has finished, each with its return value
    requests,       \* HTTP lookup requests issued for the row being/last resolved
    hit,            \* the row last resolved found its file present
    first_path,     \* merchant -> the logo_path of its first resolution, <<>> before
    jazz_logo,      \* download_jazz_logo returned an image
    asked,          \* the lookups the current/last download_or_generate_logo call
                    \* has sent, in order, each with its service and domain
    last_response,  \* what the last of them got back, NoResponse before
    wedges,         \* Wedge patches added, in order
    dividers,       \* dividing lines plotted, in order
    arrows,         \* arrow badges (circle and triangle) added, in order
    center_circle,  \* center circles added
    center_text_y,  \* y of the center title
    logo_artists,   \* per row drawn: backing circle and logo image or initials
    texts,          \* behavior texts drawn
    output_file,    \* the figure was saved
    summary_csv     \* rows of fan_wheel_data_summary.csv, <<>> when not written

VARIABLES
    \* ---- the backing plate of one logo (dynamic generator)
    corners,        \* the four corner pixels of the opened logo, <<>> before
    has_colored_bg, \* the corners were taken for a coloured background
    bg_color        \* the colour of the plate when has_colored_bg, <<>> otherwise

VARIABLES
    \* ---- the cache paths of two merchant names
    key1, key2,     \* the names, <<>> before
    path_variant,   \* the generator that builds the paths
    path1, path2    \* their paths under logos/, <<>> before

VARIABLES
    \* ---- two processes resolving the logo of one merchant
    cache_exists,   \* a file is at the cache path
    cache_file,     \* its blocks, <<>> while empty or absent
    proc_pc,        \* where each process stands
    proc_content,   \* what its fallback chain produced, <<>> before
    proc_pos,       \* how many blocks it has written
    proc_seen,      \* the blocks Image.open read, <<>> before
    last_writer     \* the process whose write came last, 0 before

VARIABLES
    \* ---- snowflake_connection.py
    _instance,        \* SnowflakeConnectionManager._instance: 0 is None, else the object
    _initialized,     \* _instance._initialized
    _config,          \* _instance._config: "None" or "loaded"
    _connection,      \* _instance._connection: 0 is None, else the driver connection
    _manager,         \* the module global is set
    private_key_path, \* SNOWFLAKE_PRIVATE_KEY_PATH is set
    objects,          \* how many manager objects __new__ has created
    driver,           \* each driver connection: "unopened", "open" or "closed"
    setup_calls,      \* how often _setup_config has run
    held,             \* a caller holds the manager a construction returned
    calls,            \* calls made so far
    outcome           \* what the last call did

VARIABLES
    \* ---- ppt_generator.py, JazzInsightsSlideGenerator
    slide_pc,          \* where generate_complete_slide stands
    openai_client,     \* self.openai_client is set
    use_ai_summary,    \* the argument of the running call
    chart_image_path,  \* self.chart_image_path is set
    wheel_image_path,  \* self.wheel_image_path is set
    custom_summary,    \* generate_ai_summary was called before the slide
    steps,             \* the steps the running call has run, and what each returned
    saved,             \* prs.save has run in the running call
    returned,          \* what the call returned: "" while it runs
    slide_runs         \* calls of generate_complete_slide so far

VARIABLES
    \* ---- merchant_pull.py, check_qualification
    row_AUDIENCE_COUNT,   \* row['AUDIENCE_COUNT'] of the row checked last
    row_PERC_AUDIENCE,    \* its percentage of the audience, a rational
    qualifies,            \* the first value returned for it
    reason                \* the second value returned: "" before any check

VARIABLES
    \* ---- ppt_generator.py, _save_community_data_from_output
    script_df,        \* the communities the chart script charted, <<>> before
    stdout_from,      \* what wrote the captured output: "" before
    stdout,           \* result.stdout, as its lines
    parsed,           \* _save_community_data_from_output has run
    community_json    \* the records in community_data.json, <<>> when not written

wrapVars == <<formatter, community, category, merchant, row_behavior, behavior>>
procVars == <<variant, brandfetch_api, logos, renders, pc, wheel_data_df, row_i,
              step, cand, tried, requests, hit, first_path, jazz_logo,
              asked, last_response>>
canvasVars == <<wedges, dividers, arrows, center_circle, center_text_y,
                logo_artists, texts, output_file, summary_csv>>
plateVars == <<corners, has_colored_bg, bg_color>>
pathVars == <<key1, key2, path_variant, path1, path2>>
raceVars == <<cache_exists, cache_file, proc_pc, proc_content, proc_pos,
              proc_seen, last_writer>>
connVars == <<_instance, _initialized, _config, _connection, _manager,
              private_key_path, objects, driver, setup_calls, held, calls, outcome>>
slideVars == <<slide_pc, openai_client, use_ai_summary, chart_image_path,
               wheel_image_path, custom_summary, steps, saved, returned, slide_runs>>
parseVars == <<script_df, stdout_from, stdout, parsed, community_json>>
qualVars == <<row_AUDIENCE_COUNT, row_PERC_AUDIENCE, qualifies, reason>>
moreVars == <<connVars, slideVars, parseVars, qualVars>>
sideVars == <<plateVars, pathVars, raceVars, moreVars>>
vars == <<wrapVars, procVars, canvasVars, sideVars>>

\* ------------------------------------------------------------------ str
SP == " "
NL == "\n"

UpperCase == <<"A","B","C","D","E","F","G","H","I","J","K","L","M",
               "N","O","P","Q","R","S","T","U","V","W","X","Y","Z">>
LowerCase == <<"a","b","c","d","e","f","g","h","i","j","k","l","m",
               "n","o","p","q","r","s","t","u","v","w","x","y","z">>

isspace(c) == c \in {SP, NL}

lowerChar(c) ==
    IF \E i \in 1..26 : UpperCase[i] = c
    THEN LowerCase[CHOOSE i \in 1..26 : UpperCase[i] = c]
    ELSE c

upperChar(c) ==
    IF \E i \in 1..26 : LowerCase[i] = c
    THEN UpperCase[CHOOSE i \in 1..26 : LowerCase[i] = c]
    ELSE c

lower(s) == [i \in 1..Len(s) |-> lowerChar(s[i])]

RECURSIVE replace(_, _, _)
\* s.replace(old, new) for a one-character old and any string new
replace(s, old, new) ==
    IF s = <<>> THEN <<>>
    ELSE (IF Head(s) = old THEN new ELSE <<Head(s)>>) \o replace(Tail(s), old, new)

RECURSIVE lstrip(_)
lstrip(s) == IF s # <<>> /\ isspace(Head(s)) THEN lstrip(Tail(s)) ELSE s

RECURSIVE rstrip(_)
rstrip(s) ==
    IF s # <<>> /\ isspace(s[Len(s)]) THEN rstrip(SubSeq(s, 1, Len(s) - 1)) ELSE s

strip(s) == rstrip(lstrip(s))

RECURSIVE splitAcc(_, _, _)
splitAcc(s, cur, acc) ==
    IF s = <<>> THEN (IF cur = <<>> THEN acc ELSE Append(acc, cur))
    ELSE IF isspace(Head(s))
         THEN splitAcc(Tail(s), <<>>, IF cur = <<>> THEN acc ELSE Append(acc, cur))
         ELSE splitAcc(Tail(s), Append(cur, Head(s)), acc)

\* s.split(): the maximal runs of non-whitespace characters
split(s) == splitAcc(s, <<>>, <<>>)

RECURSIVE join(_, _)
\* sep.join(words)
join(sep, words) ==
    IF words = <<>> THEN <<>>
    ELSE IF Len(words) = 1 THEN words[1]
    ELSE words[1] \o sep \o join(sep, Tail(words))

\* key.lower() in category.lower()
contains(s, sub) ==
    \E i \in 0..(Len(s) - Len(sub)) : SubSeq(s, i + 1, i + Len(sub)) = sub

\* words[a:b] of Python (0-based, b exclusive)
slice(words, a, b) == SubSeq(words, a + 1, b)

\* ------------------------------------------------------------ numbers
\* A Python float is modelled by the exact rational it stands for, kept in
\* lowest terms with a positive denominator so that equal values are equal records.
abs(x) == IF x < 0 THEN -x ELSE x

RECURSIVE gcd(_, _)
gcd(a, b) == IF b = 0 THEN a ELSE gcd(b, a % b)

Rat(n, d) ==
    LET g == gcd(abs(n), d)
    IN  [num |-> n \div g, den |-> d \div g]

Int2Rat(k) == [num |-> k, den |-> 1]
RAdd(a, b) == Rat(a.num * b.den + b.num * a.den, a.den * b.den)
RSub(a, b) == Rat(a.num * b.den - b.num * a.den, a.den * b.den)
RMul(a, b) == Rat(a.num * b.num, a.den * b.den)
\* a >= b
RGe(a, b) == a.num * b.den >= b.num * a.den
\* the angle in [0, 360) that differs from a by a multiple of 360
RMod360(a) == Rat(a.num % (360 * a.den), a.den)

\* ------------------------------------------------- behavior-text formatting
Shops == <<"S","h","o","p","s">>
ShopsAt == <<"S","h","o","p","s"," ","a","t">>
FanOf == <<"F","a","n"," ","o","f">>
Enjoys == <<"E","n","j","o","y","s">>
FillsUpAt == <<"F","i","l","l","s"," ","u","p"," ","a","t">>
AutoZone == <<"A","u","t","o","Z","o","n","e">>
College == <<"C","o","l","l","e","g","e">>
Sports == <<"S","p","o","r","t","s">>
REI == <<"R","E","I">>

CollegeSports == <<"C","o","l","l","e","g","e"," ","S","p","o","r","t","s">>
Golfers == <<"G","o","l","f","e","r","s">>
CulturalArts == <<"C","u","l","t","u","r","a","l"," ","A","r","t","s">>
NBA == <<"N","B","A">>

\* APPROVED_COMMUNITIES.get(name, default), on the entries the model draws from
APPROVED_COMMUNITIES_get(name, default) ==
    CASE name = CollegeSports -> FanOf
      [] name = Golfers -> Shops
      [] name = CulturalArts -> Enjoys
      [] name = <<"B","o","o","k","w","o","r","m","s">> -> <<"R","e","a","d","s">>
      [] name = <<"D","a","t","e","r","s">> -> <<"D","a","t","e","s"," ","o","n">>
      [] name = <<"D","r","i","n","k","e","r","s">> -> <<"D","r","i","n","k","s">>
      [] name = <<"G","a","m","e","r","s">> -> <<"G","a","m","e","s"," ","o","n">>
      [] name = <<"R","u","n","n","e","r","s">> -> <<"R","u","n","s"," ","w","i","t","h">>
      [] name = <<"S","k","a","t","e">> -> <<"S","k","a","t","e","s"," ","w","i","t","h">>
      [] name = <<"S","k","i","e","r","s">> -> <<"S","k","i","e","s"," ","w","i","t","h">>
      [] name = <<"S","u","r","f">> -> <<"S","u","r","f","s">>
      [] name = <<"Y","o","g","i","s">> -> <<"S","t","r","e","t","c","h","e","s"," ","w","i","t","h">>
      [] OTHER -> default

\* the communities a row may carry; NBA is not an approved community
CommunitySet == {CollegeSports, Golfers, CulturalArts, NBA}

Retail == <<"R","e","t","a","i","l">>
Gas == <<"G","a","s">>
Entertainment == <<"E","n","t","e","r","t","a","i","n","m","e","n","t">>
GasStations == <<"G","a","s"," ","S","t","a","t","i","o","n","s">>
LiveEntertainment == <<"L","i","v","e"," ","E","n","t","e","r","t","a","i","n","m","e","n","t">>

\* verb_map of simple_behavior_text, in dict order, on the entries the model draws from
verb_map == << <<Retail, ShopsAt>>, <<Gas, FillsUpAt>>, <<Entertainment, Enjoys>> >>

\* <<>> stands for a category that is None or '' (both falsy)
CategorySet == {Retail, GasStations, LiveEntertainment, <<>>}

\* the merchant names: up to MaxMerchantWords words joined by single spaces
MaxMerchantWords == 2
MerchantWords == {AutoZone, College, Sports, REI}
MerchantSet ==
    {join(<<SP>>, ws) : ws \in UNION {[1..n -> MerchantWords] : n \in 0..MaxMerchantWords}}

\* the split of `words` at index mid, as f"{line1}\n{line2}"
two_lines(words, mid) ==
    join(<<SP>>, slice(words, 0, mid)) \o <<NL>> \o join(<<SP>>, slice(words, mid, Len(words)))

\* format_behavior_text splitting at ceil(n/2) instead of floor(n/2)
format_behavior_text_ceil(c, m) ==
    LET verb == APPROVED_COMMUNITIES_get(strip(c), ShopsAt)
        text == verb \o <<SP>> \o m
        words == split(text)
    IN  IF Len(words) >= 3 THEN two_lines(words, (Len(words) + 1) \div 2)
        ELSE IF Len(words) = 2 THEN words[1] \o <<NL>> \o words[2]
        ELSE text

\* wheel_generator_brand.format_behavior_text
format_behavior_text(c, m) ==
    LET verb == APPROVED_COMMUNITIES_get(strip(c), ShopsAt)
        text == verb \o <<SP>> \o m
        words == split(text)
    IN  IF Len(words) >= 3 THEN two_lines(words, Len(words) \div 2)
        ELSE IF Len(words) = 2 THEN words[1] \o <<NL>> \o words[2]
        ELSE text

RECURSIVE verb_lookup(_, _)
\* the first verb_map key contained in the category, 'Shops at' when none is
verb_lookup(cat, i) ==
    IF i > Len(verb_map) THEN ShopsAt
    ELSE IF contains(lower(cat), lower(verb_map[i][1])) THEN verb_map[i][2]
    ELSE verb_lookup(cat, i + 1)

\* wheel_generator_dynamic.DynamicFanWheelGenerator.simple_behavior_text
simple_behavior_text(m, cat) ==
    LET verb == IF cat # <<>> THEN verb_lookup(cat, 1) ELSE ShopsAt
        words == split(verb \o <<SP>> \o m)
    IN  IF Len(words) >= 3
        THEN words[1] \o <<SP>> \o words[2] \o <<NL>> \o join(<<SP>>, slice(words, 2, Len(words)))
        ELSE IF Len(words) = 2 THEN words[1] \o <<NL>> \o words[2]
        ELSE m

\* the formatting of row['behavior'] with the short-word shift applied from
\* three words on instead of from four
formatted_text_shift3(b) ==
    LET text == replace(b, NL, <<SP>>)
        words == split(text)
    IN  IF Len(words) >= 2
        THEN IF Len(words) = 2 THEN words[1] \o <<NL>> \o words[2]
             ELSE LET mid0 == Len(words) \div 2
                      mid == IF Len(words) >= 3 /\ Len(words[(mid0 - 1) + 1]) <= 3
                             THEN mid0 - 1 ELSE mid0
                  IN  two_lines(words, mid)
        ELSE text

\* generate_professional_wheel: the formatting of row['behavior'] in the drawing loop
formatted_text(b) ==
    LET text == replace(b, NL, <<SP>>)
        words == split(text)
    IN  IF Len(words) >= 2
        THEN IF Len(words) = 2 THEN words[1] \o <<NL>> \o words[2]
             ELSE LET mid0 == Len(words) \div 2
                      mid == IF Len(words) > 3 /\ Len(words[(mid0 - 1) + 1]) <= 3
                             THEN mid0 - 1 ELSE mid0
                  IN  two_lines(words, mid)
        ELSE text

\* ------------------------------------------------------------ the table

\* rows the merchants query may return (COMMUNITY, MERCHANT, CATEGORY,
\* PERC_INDEX), one per community, ORDER BY PERC_INDEX DESC; the fourth has a
\* merchant name of only white space
QueryRows == <<
    [COMMUNITY |-> <<"S","k","i","e","r","s">>, MERCHANT |-> <<"R","E","I">>,
     CATEGORY |-> <<"R","e","t","a","i","l">>, PERC_INDEX |-> 71],
    [COMMUNITY |-> <<"Y","o","g","i","s">>, MERCHANT |-> <<"L","u","l","u","l","e","m","o","n">>,
     CATEGORY |-> <<"R","e","t","a","i","l">>, PERC_INDEX |-> 45],
    [COMMUNITY |-> <<"S","u","r","f">>, MERCHANT |-> <<"R","i","p"," ","C","u","r","l">>,
     CATEGORY |-> <<"R","e","t","a","i","l">>, PERC_INDEX |-> 23],
    [COMMUNITY |-> <<"C","u","l","t","u","r","a","l"," ","A","r","t","s">>, MERCHANT |-> <<" ">>,
     CATEGORY |-> <<>>, PERC_INDEX |-> 12],
    [COMMUNITY |-> <<"G","a","m","e","r","s">>, MERCHANT |-> <<"K","l","a","r","n","a">>,
     CATEGORY |-> <<"R","e","t","a","i","l">>, PERC_INDEX |-> 11],
    [COMMUNITY |-> <<"B","o","o","k","w","o","r","m","s">>, MERCHANT |-> <<"W","a","y","f","a","i","r">>,
     CATEGORY |-> <<"R","e","t","a","i","l">>, PERC_INDEX |-> 10],
    [COMMUNITY |-> <<"D","a","t","e","r","s">>, MERCHANT |-> <<"U","l","t","a">>,
     CATEGORY |-> <<"R","e","t","a","i","l">>, PERC_INDEX |-> 9],
    [COMMUNITY |-> <<"D","r","i","n","k","e","r","s">>, MERCHANT |-> <<"G","r","u","b","H","u","b">>,
     CATEGORY |-> <<"L","i","v","e"," ","E","n","t","e","r","t","a","i","n","m","e","n","t">>, PERC_INDEX |-> 8],
    [COMMUNITY |-> <<"R","u","n","n","e","r","s">>, MERCHANT |-> <<"S","o","u","t","h","w","e","s","t">>,
     CATEGORY |-> <<>>, PERC_INDEX |-> 7],
    [COMMUNITY |-> <<"S","k","a","t","e">>, MERCHANT |-> <<"K","w","i","k"," ","T","r","i","p">>,
     CATEGORY |-> <<"G","a","s"," ","S","t","a","t","i","o","n","s">>, PERC_INDEX |-> 6] >>

\* the communities query ends in LIMIT 10
LIMIT == 10

\* the rows the resolution runs draw their tables from
BaseRows == SubSeq(QueryRows, 1, 4)

\* data['brand'] of generate_professional_wheel
data_brand == <<
    <<"A","u","t","o","Z","o","n","e">>,
    <<"S","o","u","t","h","w","e","s","t">>,
    <<"K","l","a","r","n","a">>,
    <<"K","w","i","k"," ","T","r","i","p">>,
    <<"W","a","y","f","a","i","r">>,
    <<"G","r","u","b","H","u","b">>,
    <<"U","l","t","a">>,
    <<"K","r","i","s","p","y"," ","K","r","e","m","e">>,
    <<"J","e","w","e","l","-","O","s","c","o">>,
    <<"N","i","a","g","a","r","a"," ","W","a","t","e","r">> >>

\* data['behavior'] of generate_professional_wheel, in order
data_behavior_list == <<
    <<"S","h","o","p","s"," ","a","t","\n","A","u","t","o","Z","o","n","e">>,
    <<"F","l","y","s"," ","w","i","t","h","\n","S","o","u","t","h","w","e","s","t">>,
    <<"P","a","y","s"," ","w","i","t","h","\n","K","l","a","r","n","a">>,
    <<"F","i","l","l","s"," ","u","p"," ","a","t","\n","K","w","i","k"," ","T","r","i","p">>,
    <<"D","e","c","o","r","a","t","e","s"," ","w","i","t","h","\n","W","a","y","f","a","i","r">>,
    <<"D","e","l","i","v","e","r","y"," ","w","i","t","h","\n","G","r","u","b","H","u","b">>,
    <<"B","e","a","u","t","y"," ","a","t","\n","U","l","t","a">>,
    <<"I","n","d","u","l","g","e","s"," ","a","t","\n","K","r","i","s","p","y"," ","K","r","e","m","e">>,
    <<"G","r","o","c","e","r","i","e","s"," ","a","t","\n","J","e","w","e","l","-","O","s","c","o">>,
    <<"D","r","i","n","k","s","\n","N","i","a","g","a","r","a"," ","W","a","t","e","r">> >>

\* data['behavior'] as a set
data_behavior == {data_behavior_list[k] : k \in 1..Len(data_behavior_list)}

\* the row a generator script hands to generate_wheel: the query's columns, the
\* behavior column fetch_wheel_data adds, and an empty logo_path; the dynamic
\* generator's generate_behavior_text is taken at its fallback,
\* simple_behavior_text
with_behavior(v, row) ==
    [COMMUNITY |-> row.COMMUNITY, MERCHANT |-> row.MERCHANT, CATEGORY |-> row.CATEGORY,
     PERC_INDEX |-> row.PERC_INDEX,
     behavior |-> IF v = "brand" THEN format_behavior_text(row.COMMUNITY, row.MERCHANT)
                  ELSE simple_behavior_text(row.MERCHANT, row.CATEGORY),
     logo_path |-> <<>>, label |-> 0]

\* row k of the DataFrame generate_professional_wheel builds (columns brand,
\* behavior, logo_path; the brand is kept in MERCHANT)
professional_row(k) ==
    [COMMUNITY |-> <<>>, MERCHANT |-> data_brand[k], CATEGORY |-> <<>>, PERC_INDEX |-> 0,
     behavior |-> data_behavior_list[k], logo_path |-> <<>>, label |-> k - 1]

\* ------------------------------------------------------------ logos/
DotPng == <<".","p","n","g">>
LogoDir == <<"l","o","g","o","s","/">>
DotCom == <<".","c","o","m">>
DotNet == <<".","n","e","t">>
DotOrg == <<".","o","r","g">>
Www == <<"w","w","w",".">>

\* a file name with the spaces dropped instead of underscored
filepath_stripped(v, m) ==
    LogoDir \o replace(replace(replace(lower(m), SP, <<>>), "'", <<>>), ",", <<>>) \o DotPng

\* logo_dir / filename of the logo loop
filepath(v, m) ==
    LET underscored == replace(lower(m), SP, <<"_">>)
        plain == replace(underscored, "'", <<>>)
    IN  LogoDir \o (IF v = "professional" THEN plain ELSE replace(plain, ",", <<>>)) \o DotPng

\* clean_name of BrandfetchAPI.download_logo and download_logo_clearbit
clean_name(v, m) ==
    LET c == replace(replace(replace(lower(m), "'", <<>>), SP, <<>>), ",", <<>>)
    IN  IF v = "dynamic" THEN replace(c, ".", <<>>) ELSE c

\* domains_to_try of BrandfetchAPI.download_logo
brandfetch_domains(m) ==
    LET c == clean_name("brand", m) IN <<c \o DotCom, c \o DotNet, c \o DotOrg>>

\* a Clearbit lookup with the candidates of the Brandfetch lookup
clearbit_domains_as_brandfetch(v, m) ==
    LET c == clean_name(v, m) IN <<c \o DotCom, c \o DotNet, c \o DotOrg>>

\* domains_to_try of download_logo_clearbit
clearbit_domains(v, m) ==
    LET c == clean_name(v, m)
    IN  IF v = "dynamic" THEN <<c \o DotCom, Www \o c \o DotCom, c \o DotNet, c \o DotOrg>>
        ELSE <<c \o DotCom, c \o DotNet>>

Absent == "absent"

\* what a file of logos/ may hold: a raster image, an SVG document, nothing,
\* or the placeholder create_letter_logo draws
Bodies == {"png", "svg", "empty"}

\* PIL's Image.open reads the content
Decodes(content) == content \in {"png", "letter"}

MerchantKeys ==
    {QueryRows[k].MERCHANT : k \in 1..Len(QueryRows)}
    \cup {data_brand[k] : k \in 1..Len(data_brand)}

PathSet ==
    {filepath("brand", m) : m \in MerchantKeys}
    \cup {filepath("professional", data_brand[k]) : k \in 1..Len(data_brand)}

\* a logos/ directory in which no file is ever found
exists_never(path) == FALSE

\* filepath.exists()
exists(path) == logos[path] # Absent

\* `not filepath.exists()` that sends the logo loop to the network
no_file_always(path) == TRUE

\* `not filepath.exists()`
no_file(path) == ~exists(path)

\* what requests.get may give: an exception (network error, timeout), or a
\* response with its status, content type and body
Failed == {[status |-> s, ctype |-> "text", body |-> "empty"] : s \in {"exception", "404"}}
Response == Failed \cup [status : {"200"}, ctype : {"image", "text"}, body : Bodies]

\* no request has been sent
NoResponse == [status |-> "none", ctype |-> "text", body |-> "empty"]

\* ------------------------------------------------------------ geometry
outer_radius == 5

logo_radius(v) == IF v = "professional" THEN Rat(25, 10) ELSE Rat(28, 10)
middle_radius(v) == logo_radius(v)
inner_radius(v) == IF v = "professional" THEN Rat(18, 10) ELSE Rat(16, 10)
arrow_r(v) == IF v = "professional" THEN Rat(32, 10) ELSE Rat(40, 10)

\* angle_step = 360 / num_items
angle_step(num_items) == Rat(360, num_items)

\* start_angle = i * angle_step - 90
start_angle(k, num_items) == RSub(RMul(Int2Rat(k), angle_step(num_items)), Int2Rat(90))

\* an end angle from a step cut to whole degrees
end_angle_whole(k, num_items) == Int2Rat((k + 1) * (360 \div num_items) - 90)

\* end_angle = (i + 1) * angle_step - 90
end_angle(k, num_items) == RSub(RMul(Int2Rat(k + 1), angle_step(num_items)), Int2Rat(90))

\* center_angle = i * angle_step + angle_step / 2 - 90
center_angle(k, num_items) ==
    RSub(RAdd(RMul(Int2Rat(k), angle_step(num_items)),
              RMul(angle_step(num_items), Rat(1, 2))), Int2Rat(90))

\* the two Wedge patches of sector k: the full wedge and the outer ring over it
sector_wedges(v, k, num_items) ==
    << [ring |-> "full", theta1 |-> start_angle(k, num_items),
        theta2 |-> end_angle(k, num_items),
        r |-> Int2Rat(outer_radius), width |-> Int2Rat(outer_radius)],
       [ring |-> "outer", theta1 |-> start_angle(k, num_items),
        theta2 |-> end_angle(k, num_items),
        r |-> Int2Rat(outer_radius),
        width |-> RSub(Int2Rat(outer_radius), middle_radius(v))] >>

\* the dividing line of boundary k
divider(v, k, num_items) ==
    [angle |-> start_angle(k, num_items), from |-> inner_radius(v),
     to |-> Int2Rat(outer_radius)]

\* a badge placed at the angular midpoint of sector k
arrow_badge_midpoint(v, k, num_items) ==
    [angle |-> center_angle(k, num_items), r |-> arrow_r(v),
     direction |-> RSub(center_angle(k, num_items), Int2Rat(90))]

\* the badge of boundary k: a white circle at arrow_r and a triangle whose tip
\* points along arrow_direction = arrow_angle - pi/2
arrow_badge(v, k, num_items) ==
    [angle |-> start_angle(k, num_items), r |-> arrow_r(v),
     direction |-> RSub(start_angle(k, num_items), Int2Rat(90))]

\* initials = ''.join([word[0].upper() for word in name.split()[:2]])
initials(name) ==
    LET ws == split(name)
        two == SubSeq(ws, 1, IF Len(ws) < 2 THEN Len(ws) ELSE 2)
    IN  [k \in 1..Len(two) |-> upperChar(two[k][1])]

\* a drawing loop without the except branch
logo_artist_image(v, row, k, num_items) ==
    [angle |-> center_angle(k, num_items), r |-> logo_radius(v),
     mode |-> "image", text |-> <<>>]

\* what the drawing loop puts on the logo ring for a row: the image when
\* Image.open reads the file, the initials when it raises
logo_artist(v, row, k, num_items) ==
    [angle |-> center_angle(k, num_items), r |-> logo_radius(v),
     mode |-> IF Decodes(logos[row.logo_path]) THEN "image" ELSE "initials",
     text |-> IF Decodes(logos[row.logo_path]) THEN <<>> ELSE initials(row.MERCHANT)]

\* the behavior text of a row, at the middle of the outer ring
behavior_text(v, row, k, num_items) ==
    [angle |-> center_angle(k, num_items),
     r |-> RMul(RAdd(middle_radius(v), Int2Rat(outer_radius)), Rat(1, 2)),
     text |-> IF v = "professional" THEN formatted_text(row.behavior) ELSE row.behavior]

\* a summary written from the last row to the first
summary_data_reversed(df) ==
    [k \in 1..Len(df) |->
        [COMMUNITY |-> df[Len(df) + 1 - k].COMMUNITY,
         MERCHANT |-> df[Len(df) + 1 - k].MERCHANT,
         PERC_INDEX |-> df[Len(df) + 1 - k].PERC_INDEX,
         behavior |-> df[Len(df) + 1 - k].behavior]]

\* summary_data = wheel_data_df[['COMMUNITY', 'MERCHANT', 'PERC_INDEX', 'behavior']]
summary_data(df) ==
    [k \in 1..Len(df) |->
        [COMMUNITY |-> df[k].COMMUNITY, MERCHANT |-> df[k].MERCHANT,
         PERC_INDEX |-> df[k].PERC_INDEX, behavior |-> df[k].behavior]]

\* ------------------------------------------------------------ the process
MaxSegs == 1
MaxRenders == 2

\* the key of the row the logo loop is at
cur_merchant == wheel_data_df[row_i + 1].MERCHANT
cur_path == filepath(variant, cur_merchant)

\* the query results of at most MaxSegs rows: rows of BaseRows in their order
Tables ==
    {t \in UNION {[1..n -> 1..Len(BaseRows)] : n \in 1..MaxSegs} :
        \A a, b \in DOMAIN t : a < b => t[a] < t[b]}

\* the DataFrame a script passes to generate_wheel; query_to_dataframe gives
\* it the index labels 0, 1, ...
table_of(v, rows) ==
    [k \in 1..Len(rows) |-> [with_behavior(v, rows[k]) EXCEPT !.label = k - 1]]

\* a download_or_generate_logo that starts at Brandfetch whether or not a
\* client was built
first_step_unconditional(v, api) == "brandfetch"

\* the step download_or_generate_logo starts with
first_step(v, api) == IF v = "brand" /\ api THEN "brandfetch" ELSE "clearbit"

\* a fresh figure
blank_canvas ==
    /\ wedges' = <<>>
    /\ dividers' = <<>>
    /\ arrows' = <<>>
    /\ center_circle' = 0
    /\ center_text_y' = Int2Rat(0)
    /\ logo_artists' = <<>>
    /\ texts' = <<>>
    /\ output_file' = FALSE
    /\ summary_csv' = <<>>

\* a logo loop that takes the same row again
next_row_again ==
    /\ row_i' = row_i
    /\ pc' = "logos"

\* the logo loop moves to its next row, or generate_wheel goes on when the
\* loop is over
next_row ==
    /\ row_i' = IF row_i + 1 < Len(wheel_data_df) THEN row_i + 1 ELSE 0
    /\ pc' = IF row_i + 1 < Len(wheel_data_df) THEN "logos"
             ELSE IF variant = "professional" THEN "wedges" ELSE "jazz"

\* wheel_data_df.at[idx, 'logo_path'] = str(filepath)
set_logo_path ==
    /\ wheel_data_df' = [wheel_data_df EXCEPT ![row_i + 1].logo_path = cur_path]
    /\ first_path' = [first_path EXCEPT ![cur_merchant] =
                        IF @ = <<>> THEN cur_path ELSE @]

\* a script is run: fetch_wheel_data, then generate_wheel up to its logo loop
StartRender ==
    /\ pc \in {"idle", "done", "raised"}
    /\ renders < MaxRenders
    /\ renders' = renders + 1
    /\ \E t \in Tables :
          wheel_data_df' = table_of(variant, [k \in DOMAIN t |-> BaseRows[t[k]]])
    /\ pc' = "logos"
    /\ row_i' = 0
    /\ step' = ""
    /\ cand' = 0
    /\ tried' = <<>>
    /\ requests' = 0
    /\ hit' = FALSE
    /\ jazz_logo' = FALSE
    /\ asked' = <<>>
    /\ last_response' = NoResponse
    /\ blank_canvas
    /\ UNCHANGED <<variant, brandfetch_api, logos, first_path, wrapVars, sideVars>>

\* one iteration of the logo loop up to the call of download_or_generate_logo
CheckLogo ==
    /\ pc = "logos"
    /\ hit' = exists(cur_path)
    /\ requests' = 0
    /\ tried' = <<>>
    /\ asked' = <<>>
    /\ last_response' = NoResponse
    /\ IF no_file(cur_path)
       THEN /\ pc' = "resolve"
            /\ step' = first_step(variant, brandfetch_api)
            /\ cand' = 1
            /\ UNCHANGED <<wheel_data_df, row_i, first_path>>
       ELSE /\ set_logo_path
            /\ next_row
            /\ UNCHANGED <<step, cand>>
    /\ UNCHANGED <<variant, brandfetch_api, logos, renders, jazz_logo,
                   wrapVars, canvasVars, sideVars>>

\* a download_or_generate_logo that keeps what it resolved out of logos/
resolved_unsaved(content) ==
    /\ logos' = logos
    /\ step' = ""
    /\ cand' = 0
    /\ set_logo_path
    /\ next_row

\* download_or_generate_logo returned True: back in the logo loop
resolved(content) ==
    /\ logos' = [logos EXCEPT ![cur_path] = content]
    /\ step' = ""
    /\ cand' = 0
    /\ set_logo_path
    /\ next_row

\* a lookup that sends the same request again after a failure
next_domain_retry(domains, after) ==
    /\ UNCHANGED <<cand, step, tried>>
    /\ UNCHANGED <<logos, wheel_data_df, row_i, pc, first_path>>

\* the lookup in progress goes to its next domain, or returns False and
\* download_or_generate_logo goes to the step after it
next_domain(domains, after) ==
    /\ IF cand < Len(domains)
       THEN /\ cand' = cand + 1
            /\ UNCHANGED <<step, tried>>
       ELSE /\ cand' = 1
            /\ step' = after
            /\ tried' = Append(tried, [step |-> step, ok |-> FALSE])
    /\ UNCHANGED <<logos, wheel_data_df, row_i, pc, first_path>>

\* BrandfetchAPI.download_logo, one domain of domains_to_try: the brand
\* request and, when it lists a logo, the request of the logo itself
BrandfetchTry ==
    /\ pc = "resolve"
    /\ step = "brandfetch"
    /\ \E brand \in {"exception", "404", "no logo", "logo"}, r \in Response :
          /\ brand # "logo" => r \in Failed /\ r.status = "exception"
          /\ requests' = requests + (IF brand = "logo" THEN 2 ELSE 1)
          /\ asked' = Append(asked,
                [service |-> step, domain |-> brandfetch_domains(cur_merchant)[cand]])
          /\ last_response' =
                IF brand = "logo" THEN r
                ELSE IF brand = "no logo"
                     THEN [status |-> "200", ctype |-> "json", body |-> "no logo"]
                     ELSE [status |-> brand, ctype |-> "text", body |-> "empty"]
          /\ IF brand = "logo" /\ r.status = "200"
             THEN /\ tried' = Append(tried, [step |-> step, ok |-> TRUE])
                  /\ resolved(r.body)
             ELSE next_domain(brandfetch_domains(cur_merchant), "clearbit")
    /\ UNCHANGED <<variant, brandfetch_api, renders, hit, jazz_logo,
                   wrapVars, canvasVars, sideVars>>

\* download_logo_clearbit, one domain of domains_to_try
ClearbitTry ==
    /\ pc = "resolve"
    /\ step = "clearbit"
    /\ \E r \in Response :
          /\ requests' = requests + 1
          /\ asked' = Append(asked,
                [service |-> step, domain |-> clearbit_domains(variant, cur_merchant)[cand]])
          /\ last_response' = r
          /\ IF r.status = "200" /\ r.ctype = "image"
             THEN /\ tried' = Append(tried, [step |-> step, ok |-> TRUE])
                  /\ resolved(r.body)
             ELSE next_domain(clearbit_domains(variant, cur_merchant), "letter")
    /\ UNCHANGED <<variant, brandfetch_api, renders, hit, jazz_logo,
                   wrapVars, canvasVars, sideVars>>

\* create_letter_logo: merchant.strip()[0] raises IndexError when the name has
\* no character but white space; generate_wheel does not catch it and main
\* logs and re-raises it
CreateLetterLogo ==
    /\ pc = "resolve"
    /\ step = "letter"
    /\ IF strip(cur_merchant) = <<>>
       THEN /\ pc' = "raised"
            /\ tried' = Append(tried, [step |-> step, ok |-> FALSE])
            /\ UNCHANGED <<logos, wheel_data_df, row_i, step, cand, first_path>>
       ELSE /\ tried' = Append(tried, [step |-> step, ok |-> TRUE])
            /\ resolved("letter")
    /\ UNCHANGED <<variant, brandfetch_api, renders, requests, hit, jazz_logo,
                   asked, last_response, wrapVars, canvasVars, sideVars>>

\* download_jazz_logo: an image, or None on any failure; the logo loop is
\* over, and with it the record of its last download_or_generate_logo call
DownloadJazzLogo ==
    /\ pc = "jazz"
    /\ jazz_logo' \in BOOLEAN
    /\ pc' = "wedges"
    /\ tried' = <<>>
    /\ requests' = 0
    /\ hit' = FALSE
    /\ asked' = <<>>
    /\ last_response' = NoResponse
    /\ UNCHANGED <<variant, brandfetch_api, logos, renders, wheel_data_df, row_i,
                   step, cand, first_path, wrapVars, canvasVars, sideVars>>

\* a drawing loop moves to its next index, or generate_wheel goes on to `after`
next_i(after) ==
    /\ row_i' = IF row_i + 1 < Len(wheel_data_df) THEN row_i + 1 ELSE 0
    /\ pc' = IF row_i + 1 < Len(wheel_data_df) THEN pc ELSE after
    /\ UNCHANGED <<variant, brandfetch_api, logos, renders, wheel_data_df,
                   step, cand, tried, requests, hit, first_path, jazz_logo,
                   asked, last_response>>

\* for i in range(num_items): the full wedge and the outer ring of sector i
DrawWedge ==
    /\ pc = "wedges"
    /\ wedges' = wedges \o sector_wedges(variant, row_i, Len(wheel_data_df))
    /\ next_i("dividers")
    /\ UNCHANGED <<dividers, arrows, center_circle, center_text_y, logo_artists,
                   texts, output_file, summary_csv, wrapVars, sideVars>>

\* for i in range(num_items): the white dividing line
DrawDivider ==
    /\ pc = "dividers"
    /\ dividers' = Append(dividers, divider(variant, row_i, Len(wheel_data_df)))
    /\ next_i("arrows")
    /\ UNCHANGED <<wedges, arrows, center_circle, center_text_y, logo_artists,
                   texts, output_file, summary_csv, wrapVars, sideVars>>

\* for i in range(num_items): the arrow circle and the arrow
DrawArrow ==
    /\ pc = "arrows"
    /\ arrows' = Append(arrows, arrow_badge(variant, row_i, Len(wheel_data_df)))
    /\ next_i("center")
    /\ UNCHANGED <<wedges, dividers, center_circle, center_text_y, logo_artists,
                   texts, output_file, summary_csv, wrapVars, sideVars>>

\* the center circle, the Jazz logo when there is one, and the center title
DrawCenter ==
    /\ pc = "center"
    /\ center_circle' = center_circle + 1
    /\ \E added \in BOOLEAN :
          /\ added => jazz_logo
          /\ center_text_y' = IF added THEN Rat(-6, 10) ELSE Int2Rat(0)
    /\ pc' = "content"
    /\ UNCHANGED <<variant, brandfetch_api, logos, renders, wheel_data_df, row_i,
                   step, cand, tried, requests, hit, first_path, jazz_logo,
                   asked, last_response,
                   wedges, dividers, arrows, logo_artists, texts, output_file,
                   summary_csv, wrapVars, sideVars>>

\* the i of `for i, row in wheel_data_df.iterrows()`: the index label of the row
iterrows_i(row, position) == row.label

\* for i, row in wheel_data_df.iterrows(): the logo and the behavior text
PlaceContent ==
    /\ pc = "content"
    /\ logo_artists' = Append(logo_artists,
          logo_artist(variant, wheel_data_df[row_i + 1],
                      iterrows_i(wheel_data_df[row_i + 1], row_i), Len(wheel_data_df)))
    /\ texts' = Append(texts,
          behavior_text(variant, wheel_data_df[row_i + 1],
                        iterrows_i(wheel_data_df[row_i + 1], row_i), Len(wheel_data_df)))
    /\ next_i("save")
    /\ UNCHANGED <<wedges, dividers, arrows, center_circle, center_text_y,
                   output_file, summary_csv, wrapVars, sideVars>>

\* plt.savefig, and the data summary the Snowflake-backed generators write
Save ==
    /\ pc = "save"
    /\ output_file' = TRUE
    /\ summary_csv' = IF variant = "professional" THEN <<>>
                      ELSE summary_data(wheel_data_df)
    /\ pc' = "done"
    /\ UNCHANGED <<variant, brandfetch_api, logos, renders, wheel_data_df, row_i,
                   step, cand, tried, requests, hit, first_path, jazz_logo,
                   asked, last_response,
                   wedges, dividers, arrows, center_circle, center_text_y,
                   logo_artists, texts, wrapVars, sideVars>>

\* ------------------------------------------------------------ backing plate
\* the corner colours a logo may have (R, G, B of the RGBA pixel)
CornerColors ==
    { <<10, 10, 10>>, <<250, 250, 250>>, <<20, 20, 20>>, <<0, 0, 0>>,
      <<45, 45, 45>>, <<250, 250, 200>>, <<241, 241, 241>>, <<240, 250, 250>> }

\* all(abs(c[i] - first_corner[i]) < 30 for c in corners for i in range(3))
corners_similar(cs) ==
    \A k \in 1..Len(cs), ch \in 1..3 : abs(cs[k][ch] - cs[1][ch]) < 30

\* not all(c > 240 for c in first_corner)
not_white(first_corner) == ~(\A ch \in 1..3 : first_corner[ch] > 240)

\* has_colored_bg as the drawing loop computes it from the corner pixels
colored_bg(cs) == corners_similar(cs) /\ not_white(cs[1])

\* no logo has been examined
plate_idle ==
    /\ corners = <<>>
    /\ has_colored_bg = FALSE
    /\ bg_color = <<>>

\* no path has been built
path_idle ==
    /\ key1 = <<>>
    /\ key2 = <<>>
    /\ path_variant = ""
    /\ path1 = <<>>
    /\ path2 = <<>>

\* the processes that share the logos/ directory
Procs == 1..2

\* no process has looked at the cache path
race_idle ==
    /\ cache_exists = FALSE
    /\ cache_file = <<>>
    /\ proc_pc = [p \in Procs |-> "check"]
    /\ proc_content = [p \in Procs |-> <<>>]
    /\ proc_pos = [p \in Procs |-> 0]
    /\ proc_seen = [p \in Procs |-> <<>>]
    /\ last_writer = 0

MaxConns == 3
MaxCalls == 4

\* what a call leaves behind: the function called, the exception it raised
\* ("" when it returned), whether it opened a driver connection, the
\* connection and the manager it returned or worked with, that manager's _config
NoCall ==
    [op |-> "", raised |-> "", opened |-> FALSE, returned |-> 0, manager |-> 0,
     config |-> "None"]

\* the module was imported, nothing was called
conn_idle ==
    /\ _instance = 0
    /\ _initialized = FALSE
    /\ _config = "None"
    /\ _connection = 0
    /\ _manager = FALSE
    /\ private_key_path = FALSE
    /\ objects = 0
    /\ driver = [c \in 1..MaxConns |-> "unopened"]
    /\ setup_calls = 0
    /\ held = FALSE
    /\ calls = 0
    /\ outcome = NoCall

MaxSlideRuns == 3

\* a generator object before its first generate_complete_slide
slide_idle ==
    /\ slide_pc = "idle"
    /\ openai_client = FALSE
    /\ use_ai_summary = FALSE
    /\ chart_image_path = FALSE
    /\ wheel_image_path = FALSE
    /\ custom_summary = FALSE
    /\ steps = <<>>
    /\ saved = FALSE
    /\ returned = ""
    /\ slide_runs = 0

\* no script output was captured
parse_idle ==
    /\ script_df = <<>>
    /\ stdout_from = ""
    /\ stdout = <<>>
    /\ parsed = FALSE
    /\ community_json = <<>>

\* no merchant row was checked
qual_idle ==
    /\ row_AUDIENCE_COUNT = 0
    /\ row_PERC_AUDIENCE = Int2Rat(0)
    /\ qualifies = FALSE
    /\ reason = ""

more_idle == conn_idle /\ slide_idle /\ parse_idle /\ qual_idle

\* nothing outside the generator run is exercised
side_idle == plate_idle /\ path_idle /\ race_idle /\ more_idle

\* no formatting routine is being exercised
wrap_idle ==
    /\ formatter = ""
    /\ community = <<>>
    /\ category = <<>>
    /\ merchant = <<>>
    /\ row_behavior = <<>>
    /\ behavior = <<>>

\* a figure nothing was drawn on
canvas_blank ==
    /\ wedges = <<>>
    /\ dividers = <<>>
    /\ arrows = <<>>
    /\ center_circle = 0
    /\ center_text_y = Int2Rat(0)
    /\ logo_artists = <<>>
    /\ texts = <<>>
    /\ output_file = FALSE
    /\ summary_csv = <<>>

\* no resolution in progress
resolve_idle ==
    /\ step = ""
    /\ cand = 0
    /\ tried = <<>>
    /\ requests = 0
    /\ hit = FALSE
    /\ first_path = [m \in MerchantKeys |-> <<>>]
    /\ jazz_logo = FALSE
    /\ asked = <<>>
    /\ last_response = NoResponse

\* a Snowflake-backed generator was constructed, logos/ is empty
Init ==
    /\ variant \in {"brand", "dynamic"}
    /\ brandfetch_api \in BOOLEAN
    /\ variant = "dynamic" => ~brandfetch_api
    /\ logos = [p \in PathSet |-> Absent]
    /\ renders = 0
    /\ pc = "idle"
    /\ wheel_data_df = <<>>
    /\ row_i = 0
    /\ resolve_idle
    /\ canvas_blank
    /\ wrap_idle
    /\ side_idle

Next ==
    \/ StartRender
    \/ CheckLogo
    \/ BrandfetchTry
    \/ ClearbitTry
    \/ CreateLetterLogo
    \/ DownloadJazzLogo
    \/ DrawWedge
    \/ DrawDivider
    \/ DrawArrow
    \/ DrawCenter
    \/ PlaceContent
    \/ Save

Spec == Init /\ [][Next]_vars

\* a generator is run with every logo already in logos/, at most one of the
\* files not an image PIL reads
InitLayout ==
    /\ variant \in {"brand", "dynamic", "professional"}
    /\ brandfetch_api = FALSE
    /\ \E bad \in {{}} \cup {{p} : p \in PathSet} :
          logos = [p \in PathSet |-> IF p \in bad THEN "svg" ELSE "png"]
    /\ renders = 1
    /\ pc = "logos"
    /\ IF variant = "professional"
       THEN wheel_data_df = [k \in 1..Len(data_brand) |-> professional_row(k)]
       ELSE \E n \in 1..LIMIT :
               wheel_data_df = table_of(variant, SubSeq(QueryRows, 1, n))
    /\ row_i = 0
    /\ resolve_idle
    /\ canvas_blank
    /\ wrap_idle
    /\ side_idle

NextLayout ==
    \/ CheckLogo
    \/ DownloadJazzLogo
    \/ DrawWedge
    \/ DrawDivider
    \/ DrawArrow
    \/ DrawCenter
    \/ PlaceContent
    \/ Save

SpecLayout == InitLayout /\ [][NextLayout]_vars


\* a query result in which two communities have the same top merchant, and
\* one has a merchant name of white space
DupRows ==
    << QueryRows[1],
       [QueryRows[9] EXCEPT !.MERCHANT = QueryRows[1].MERCHANT],
       QueryRows[2],
       QueryRows[4] >>

MaxDupSegs == 3

\* the tables made of these rows, in any order, that hold both rows of the
\* repeated merchant
DupTables ==
    {t \in UNION {[1..n -> 1..Len(DupRows)] : n \in 2..MaxDupSegs} :
        /\ \A a, b \in DOMAIN t : a # b => t[a] # t[b]
        /\ {1, 2} \subseteq {t[a] : a \in DOMAIN t}}

\* one render by a Snowflake-backed generator over such a table; each logo
\* file of its merchants is in logos/ already or not
InitDup ==
    /\ variant \in {"brand", "dynamic"}
    /\ brandfetch_api \in BOOLEAN
    /\ brandfetch_api => variant = "brand"
    /\ \E present \in SUBSET {filepath(variant, DupRows[k].MERCHANT) : k \in 1..Len(DupRows)} :
          logos = [p \in PathSet |-> IF p \in present THEN "png" ELSE Absent]
    /\ renders = 1
    /\ pc = "logos"
    /\ \E t \in DupTables :
          wheel_data_df = table_of(variant, [k \in DOMAIN t |-> DupRows[t[k]]])
    /\ row_i = 0
    /\ resolve_idle
    /\ canvas_blank
    /\ wrap_idle
    /\ side_idle

NextDup ==
    \/ CheckLogo
    \/ BrandfetchTry
    \/ ClearbitTry
    \/ CreateLetterLogo
    \/ DownloadJazzLogo
    \/ DrawWedge
    \/ DrawDivider
    \/ DrawArrow
    \/ DrawCenter
    \/ PlaceContent
    \/ Save

SpecDup == InitDup /\ [][NextDup]_vars

MaxCallerRows == 4

\* the index labels a table of n rows carries after its caller sorted it
\* without renumbering: 0..n-1 in some order
IndexLabels(n) ==
    {t \in [1..n -> 0..(n - 1)] : \A a, b \in 1..n : a # b => t[a] # t[b]}

\* generate_wheel of a Snowflake-backed generator is called with such a table;
\* the logo files are in logos/
InitCaller ==
    /\ variant \in {"brand", "dynamic"}
    /\ brandfetch_api = FALSE
    /\ logos = [p \in PathSet |-> "png"]
    /\ renders = 1
    /\ pc = "logos"
    /\ \E n \in 1..MaxCallerRows : \E t \in IndexLabels(n) :
          wheel_data_df = [k \in 1..n |->
              [with_behavior(variant, QueryRows[k]) EXCEPT !.label = t[k]]]
    /\ row_i = 0
    /\ resolve_idle
    /\ canvas_blank
    /\ wrap_idle
    /\ side_idle

SpecCaller == InitCaller /\ [][NextLayout]_vars

\* the verb phrases that open data['behavior'] entries and APPROVED_COMMUNITIES values
VerbSet == {Shops, ShopsAt, FanOf, Enjoys, FillsUpAt}

\* row['behavior'] values: the data of generate_professional_wheel, and any
\* "<verb>\n<brand>" string of the same shape
BehaviorSet == data_behavior \cup {v \o <<NL>> \o m : v \in VerbSet, m \in MerchantSet}

\* no generator is running
no_run ==
    /\ variant = ""
    /\ brandfetch_api = FALSE
    /\ logos = [p \in PathSet |-> Absent]
    /\ renders = 0
    /\ pc = "idle"
    /\ wheel_data_df = <<>>
    /\ row_i = 0
    /\ resolve_idle
    /\ canvas_blank

\* no generator is running: only the formatting routines are exercised
InitWrap ==
    /\ wrap_idle
    /\ side_idle
    /\ no_run

\* the drawing loop has opened a logo and not yet looked at its corners
InitPlate ==
    /\ wrap_idle
    /\ side_idle
    /\ no_run

\* the drawing loop of the dynamic generator reads the four corner pixels of a
\* logo and chooses the plate: the white circle stays, or is replaced by a
\* circle of the first corner's colour
CheckCorners ==
    /\ corners = <<>>
    /\ \E c1, c2, c3, c4 \in CornerColors :
          /\ corners' = <<c1, c2, c3, c4>>
          /\ has_colored_bg' = colored_bg(<<c1, c2, c3, c4>>)
          /\ bg_color' = IF colored_bg(<<c1, c2, c3, c4>>) THEN c1 ELSE <<>>
    /\ UNCHANGED <<wrapVars, procVars, canvasVars, pathVars, raceVars, moreVars>>

NextPlate == CheckCorners

SpecPlate == InitPlate /\ [][NextPlate]_vars

\* what a fallback chain can hand to the file: a downloaded logo of two blocks
\* or the shorter letter placeholder
RaceContents == { <<"png1", "png2">>, <<"letter1">> }

\* the file after a block is written at offset pos of an open 'wb' handle
write_at(file, pos, block) ==
    LET n == IF Len(file) > pos THEN Len(file) ELSE pos + 1
    IN  [k \in 1..n |-> IF k = pos + 1 THEN block
                        ELSE IF k <= Len(file) THEN file[k] ELSE "hole"]

\* two processes start on an empty logos/ directory
InitRace ==
    /\ wrap_idle
    /\ side_idle
    /\ no_run

\* if not filepath.exists()
RaceExists(p) ==
    /\ proc_pc[p] = "check"
    /\ proc_pc' = [proc_pc EXCEPT ![p] = IF cache_exists THEN "draw" ELSE "lookup"]
    /\ UNCHANGED <<cache_exists, cache_file, proc_content, proc_pos, proc_seen,
                   last_writer, wrapVars, procVars, canvasVars, plateVars, pathVars, moreVars>>

\* download_or_generate_logo up to the point where it has content to write
RaceResolve(p) ==
    /\ proc_pc[p] = "lookup"
    /\ \E c \in RaceContents : proc_content' = [proc_content EXCEPT ![p] = c]
    /\ proc_pc' = [proc_pc EXCEPT ![p] = "open"]
    /\ UNCHANGED <<cache_exists, cache_file, proc_pos, proc_seen, last_writer,
                   wrapVars, procVars, canvasVars, plateVars, pathVars, moreVars>>

\* open(save_path, 'wb') creates the file or truncates it
RaceOpen(p) ==
    /\ proc_pc[p] = "open"
    /\ cache_exists' = TRUE
    /\ cache_file' = <<>>
    /\ proc_pos' = [proc_pos EXCEPT ![p] = 0]
    /\ proc_pc' = [proc_pc EXCEPT ![p] = "write"]
    /\ UNCHANGED <<proc_content, proc_seen, last_writer,
                   wrapVars, procVars, canvasVars, plateVars, pathVars, moreVars>>

\* f.write(content), one block at the position of this handle
RaceWrite(p) ==
    /\ proc_pc[p] = "write"
    /\ cache_file' = write_at(cache_file, proc_pos[p], proc_content[p][proc_pos[p] + 1])
    /\ proc_pos' = [proc_pos EXCEPT ![p] = @ + 1]
    /\ last_writer' = p
    /\ proc_pc' = [proc_pc EXCEPT ![p] =
                      IF proc_pos[p] + 1 = Len(proc_content[p]) THEN "draw" ELSE "write"]
    /\ UNCHANGED <<cache_exists, proc_content, proc_seen,
                   wrapVars, procVars, canvasVars, plateVars, pathVars, moreVars>>

\* Image.open(row['logo_path']) in the logo loop of the drawing
RaceImageOpen(p) ==
    /\ proc_pc[p] = "draw"
    /\ proc_seen' = [proc_seen EXCEPT ![p] = cache_file]
    /\ proc_pc' = [proc_pc EXCEPT ![p] = "done"]
    /\ UNCHANGED <<cache_exists, cache_file, proc_content, proc_pos, last_writer,
                   wrapVars, procVars, canvasVars, plateVars, pathVars, moreVars>>

NextRace ==
    \E p \in Procs :
        \/ RaceExists(p)
        \/ RaceResolve(p)
        \/ RaceOpen(p)
        \/ RaceWrite(p)
        \/ RaceImageOpen(p)

SpecRace == InitRace /\ [][NextRace]_vars

\* ------------------------------------------------------------ snowflake_connection.py
\* the object SnowflakeConnectionManager.__new__ returns
new_object == IF _instance = 0 THEN objects + 1 ELSE _instance

\* an __init__ that marks the object initialized only after _setup_config
\* returned
initialized_after_late(constructs, raised) ==
    IF constructs /\ ~raised THEN TRUE ELSE _initialized

\* _initialized after a call: __init__ sets it before it calls _setup_config
initialized_after(constructs, raised) ==
    IF constructs THEN TRUE ELSE _initialized

\* a connection property that connects on every access
needs_connect_always == TRUE

\* if self._connection is None or self._connection.is_closed()
needs_connect == _connection = 0 \/ driver[_connection] = "closed"

\* the driver connections opened so far
opened_conns == {c \in 1..MaxConns : driver[c] # "unopened"}

\* one call into the module. `constructs`: it evaluates
\* SnowflakeConnectionManager(); `accesses`: it reads the connection property
\* of the manager; `queries`: it runs a cursor on the connection;
\* `sets_manager`: it assigns the constructed manager to the module global;
\* `keeps`: it returns the constructed manager to its caller.
call(op, constructs, accesses, queries, sets_manager, keeps) ==
    LET obj == IF constructs THEN new_object ELSE _instance
        fresh == constructs /\ obj # _instance
        initialized0 == IF fresh THEN FALSE ELSE _initialized
        config0 == IF fresh THEN "None" ELSE _config
        runs_setup == constructs /\ ~initialized0
        setup_raises == runs_setup /\ ~private_key_path
        config1 == IF runs_setup /\ private_key_path THEN "loaded" ELSE config0
    IN  /\ calls' = calls + 1
        /\ _instance' = obj
        /\ objects' = IF fresh THEN objects + 1 ELSE objects
        /\ _initialized' = initialized_after(constructs, setup_raises)
        /\ _config' = config1
        /\ setup_calls' = IF runs_setup THEN setup_calls + 1 ELSE setup_calls
        /\ _manager' = IF sets_manager /\ ~setup_raises THEN TRUE ELSE _manager
        /\ held' = IF keeps /\ ~setup_raises THEN TRUE ELSE held
        /\ UNCHANGED private_key_path
        /\ IF setup_raises
           THEN /\ outcome' = [op |-> op, raised |-> "ValueError", opened |-> FALSE,
                                returned |-> 0, manager |-> 0, config |-> config1]
                /\ UNCHANGED <<_connection, driver>>
           ELSE IF ~accesses
           THEN /\ outcome' = [op |-> op, raised |-> "", opened |-> FALSE,
                                returned |-> 0, manager |-> obj, config |-> config1]
                /\ UNCHANGED <<_connection, driver>>
           ELSE IF ~needs_connect
           THEN /\ \E query_ok \in BOOLEAN :
                      outcome' = [op |-> op,
                                  raised |-> IF queries /\ ~query_ok
                                             THEN "ProgrammingError" ELSE "",
                                  opened |-> FALSE, returned |-> _connection,
                                  manager |-> obj, config |-> config1]
                /\ UNCHANGED <<_connection, driver>>
           ELSE IF config1 = "None"
           THEN /\ outcome' = [op |-> op, raised |-> "TypeError", opened |-> FALSE,
                                returned |-> 0, manager |-> obj, config |-> config1]
                /\ UNCHANGED <<_connection, driver>>
           ELSE \E connect_ok, query_ok \in BOOLEAN :
                    IF connect_ok /\ Cardinality(opened_conns) < MaxConns
                    THEN LET c == Cardinality(opened_conns) + 1
                         IN  /\ _connection' = c
                             /\ driver' = [driver EXCEPT ![c] = "open"]
                             /\ outcome' = [op |-> op,
                                   raised |-> IF queries /\ ~query_ok
                                              THEN "ProgrammingError" ELSE "",
                                   opened |-> TRUE, returned |-> c,
                                   manager |-> obj, config |-> config1]
                    ELSE /\ outcome' = [op |-> op, raised |-> "DatabaseError",
                                         opened |-> FALSE, returned |-> 0,
                                         manager |-> obj, config |-> config1]
                         /\ UNCHANGED <<_connection, driver>>
        /\ UNCHANGED <<wrapVars, procVars, canvasVars, plateVars, pathVars, raceVars, slideVars, parseVars, qualVars>>

\* a script evaluates SnowflakeConnectionManager() and keeps the result
Construct ==
    /\ calls < MaxCalls
    /\ call("SnowflakeConnectionManager", TRUE, FALSE, FALSE, FALSE, TRUE)

\* the wrapper of with_snowflake_connection: a manager, and its connection
\* when the decorated function takes one
Wrapper ==
    /\ calls < MaxCalls
    /\ \E wants \in BOOLEAN :
          call("with_snowflake_connection", TRUE, wants, FALSE, FALSE, FALSE)

\* the module function get_connection
GetConnection ==
    /\ calls < MaxCalls
    /\ call("get_connection", ~_manager, TRUE, FALSE, TRUE, FALSE)

\* the module function query_to_dataframe
QueryToDataframe ==
    /\ calls < MaxCalls
    /\ call("query_to_dataframe", ~_manager, TRUE, TRUE, TRUE, FALSE)

\* manager.connection, by a caller that holds the manager
Connection ==
    /\ held
    /\ calls < MaxCalls
    /\ call("connection", FALSE, TRUE, FALSE, FALSE, FALSE)

\* manager.execute_query, by a caller that holds the manager
ExecuteQuery ==
    /\ held
    /\ calls < MaxCalls
    /\ call("execute_query", FALSE, TRUE, TRUE, FALSE, FALSE)

\* SnowflakeConnectionManager.close
close ==
    IF _connection # 0 /\ driver[_connection] = "open"
    THEN /\ driver' = [driver EXCEPT ![_connection] = "closed"]
         /\ _connection' = 0
    ELSE UNCHANGED <<_connection, driver>>

\* manager.close(), by a caller that holds the manager
Close ==
    /\ held
    /\ calls < MaxCalls
    /\ calls' = calls + 1
    /\ close
    /\ outcome' = [NoCall EXCEPT !.op = "close", !.manager = _instance, !.config = _config]
    /\ UNCHANGED <<_instance, _initialized, _config, _manager, private_key_path,
                   objects, setup_calls, held,
                   wrapVars, procVars, canvasVars, plateVars, pathVars, raceVars, slideVars, parseVars, qualVars>>

\* the module function close_connection
CloseConnection ==
    /\ calls < MaxCalls
    /\ calls' = calls + 1
    /\ IF _manager THEN close ELSE UNCHANGED <<_connection, driver>>
    /\ outcome' = [NoCall EXCEPT !.op = "close_connection",
                                 !.manager = IF _manager THEN _instance ELSE 0,
                                 !.config = _config]
    /\ UNCHANGED <<_instance, _initialized, _config, _manager, private_key_path,
                   objects, setup_calls, held,
                   wrapVars, procVars, canvasVars, plateVars, pathVars, raceVars, slideVars, parseVars, qualVars>>

\* the session of the held connection ends outside the manager: is_closed()
\* is true from now on
ConnectionLost ==
    /\ _connection # 0
    /\ driver[_connection] = "open"
    /\ driver' = [driver EXCEPT ![_connection] = "closed"]
    /\ UNCHANGED <<_instance, _initialized, _config, _connection, _manager,
                   private_key_path, objects, setup_calls, held, calls, outcome,
                   wrapVars, procVars, canvasVars, plateVars, pathVars, raceVars, slideVars, parseVars, qualVars>>

\* the module is imported with the key path set in the environment or not
InitConn ==
    /\ wrap_idle
    /\ no_run
    /\ plate_idle
    /\ path_idle
    /\ race_idle
    /\ slide_idle
    /\ parse_idle
    /\ qual_idle
    /\ _instance = 0
    /\ _initialized = FALSE
    /\ _config = "None"
    /\ _connection = 0
    /\ _manager = FALSE
    /\ private_key_path \in BOOLEAN
    /\ objects = 0
    /\ driver = [c \in 1..MaxConns |-> "unopened"]
    /\ setup_calls = 0
    /\ held = FALSE
    /\ calls = 0
    /\ outcome = NoCall

NextConn ==
    \/ Construct
    \/ Wrapper
    \/ GetConnection
    \/ QueryToDataframe
    \/ Connection
    \/ ExecuteQuery
    \/ Close
    \/ CloseConnection
    \/ ConnectionLost

SpecConn == InitConn /\ [][NextConn]_vars

\* ------------------------------------------------------------ ppt_generator.py
\* a generate_complete_slide that goes on whatever a step returned
after_step_regardless(ok, next) == next

\* `if not self.<step>(): return False`: where the call goes after a step
after_step(ok, next) == IF ok THEN next ELSE "returned"

\* the ways run_community_chart and run_fan_wheel end: the script is not
\* found, subprocess.run raises, the script exits non-zero, it exits zero but
\* its image is not found, or the image is there
ScriptOutcomes == {"no script", "exception", "non-zero", "no image", "image"}

\* the ways create_powerpoint_slide ends: an image is missing, an exception
\* before prs.save, or the presentation saved
SlideOutcomes == {"no wheel image", "no chart image", "exception", "saved"}

\* generate_complete_slide is called
GenerateCompleteSlide ==
    /\ slide_pc \in {"idle", "returned"}
    /\ slide_runs < MaxSlideRuns
    /\ slide_runs' = slide_runs + 1
    /\ use_ai_summary' \in BOOLEAN
    /\ slide_pc' = "chart"
    /\ steps' = <<>>
    /\ saved' = FALSE
    /\ returned' = ""
    /\ custom_summary' = FALSE
    /\ UNCHANGED <<openai_client, chart_image_path, wheel_image_path,
                   wrapVars, procVars, canvasVars, plateVars, pathVars, raceVars, connVars, parseVars, qualVars>>

\* Step 1: run_community_chart
RunCommunityChart ==
    /\ slide_pc = "chart"
    /\ \E o \in ScriptOutcomes :
          /\ steps' = Append(steps, [step |-> "chart", ok |-> o = "image"])
          /\ chart_image_path' = IF o = "image" THEN TRUE ELSE chart_image_path
          /\ slide_pc' = after_step(o = "image", "wheel")
          /\ returned' = IF after_step(o = "image", "wheel") = "returned"
                          THEN "False" ELSE ""
    /\ UNCHANGED <<openai_client, use_ai_summary, wheel_image_path, custom_summary,
                   saved, slide_runs,
                   wrapVars, procVars, canvasVars, plateVars, pathVars, raceVars, connVars, parseVars, qualVars>>

\* Step 2: run_fan_wheel, and the AI summary when it is asked for
RunFanWheel ==
    /\ slide_pc = "wheel"
    /\ \E o \in ScriptOutcomes :
          /\ steps' = Append(steps, [step |-> "wheel", ok |-> o = "image"])
          /\ wheel_image_path' = IF o = "image" THEN TRUE ELSE wheel_image_path
          /\ slide_pc' = after_step(o = "image", "slide")
          /\ returned' = IF after_step(o = "image", "slide") = "returned"
                          THEN "False" ELSE ""
          /\ custom_summary' = (after_step(o = "image", "slide") = "slide"
                                 /\ use_ai_summary /\ openai_client)
    /\ UNCHANGED <<openai_client, use_ai_summary, chart_image_path, saved, slide_runs,
                   wrapVars, procVars, canvasVars, plateVars, pathVars, raceVars, connVars, parseVars, qualVars>>

\* Step 3: create_powerpoint_slide
CreatePowerpointSlide ==
    /\ slide_pc = "slide"
    /\ \E o \in SlideOutcomes :
          /\ ~wheel_image_path => o = "no wheel image"
          /\ wheel_image_path /\ ~chart_image_path => o = "no chart image"
          /\ steps' = Append(steps, [step |-> "slide", ok |-> o = "saved"])
          /\ saved' = (o = "saved")
          /\ returned' = IF o = "saved" THEN "True" ELSE "False"
    /\ slide_pc' = "returned"
    /\ UNCHANGED <<openai_client, use_ai_summary, chart_image_path, wheel_image_path,
                   custom_summary, slide_runs,
                   wrapVars, procVars, canvasVars, plateVars, pathVars, raceVars, connVars, parseVars, qualVars>>

\* a generator was constructed, with OPENAI_API_KEY set or not
InitSlide ==
    /\ wrap_idle
    /\ no_run
    /\ plate_idle
    /\ path_idle
    /\ race_idle
    /\ conn_idle
    /\ parse_idle
    /\ qual_idle
    /\ slide_pc = "idle"
    /\ openai_client \in BOOLEAN
    /\ use_ai_summary = FALSE
    /\ chart_image_path = FALSE
    /\ wheel_image_path = FALSE
    /\ custom_summary = FALSE
    /\ steps = <<>>
    /\ saved = FALSE
    /\ returned = ""
    /\ slide_runs = 0

NextSlide ==
    \/ GenerateCompleteSlide
    \/ RunCommunityChart
    \/ RunFanWheel
    \/ CreatePowerpointSlide

SpecSlide == InitSlide /\ [][NextSlide]_vars

\* ------------------------------------------------------------ community data
Digits == <<"0","1","2","3","4","5","6","7","8","9">>

isdigit(c) == \E d \in 1..10 : Digits[d] = c

digit_value(c) == (CHOOSE d \in 1..10 : Digits[d] = c) - 1

RECURSIVE int_of(_)
\* int(s) for a string of digits
int_of(s) ==
    IF s = <<>> THEN 0 ELSE 10 * int_of(SubSeq(s, 1, Len(s) - 1)) + digit_value(s[Len(s)])

RECURSIVE str_of(_)
\* the decimal digits of a natural number: f"{n:.0f}" for a whole n
str_of(n) ==
    IF n < 10 THEN <<Digits[n + 1]>> ELSE str_of(n \div 10) \o <<Digits[(n % 10) + 1]>>

\* f"{x:.1f}" for x given in tenths
str_of_tenths(n) == str_of(n \div 10) \o <<".">> \o <<Digits[(n % 10) + 1]>>

\* stands for the bullet character U+2022 of the source
Bullet == "*"

TopCommunitiesHeader == <<"T","o","p"," ","c","o","m","m","u","n","i","t","i","e","s"," ","b","y"," ","c","o","m","p","o","s","i","t","e"," ","i","n","d","e","x">>
TotalRetrieved == <<"T","o","t","a","l"," ","c","o","m","m","u","n","i","t","i","e","s"," ","r","e","t","r","i","e","v","e","d",":"," ">>
AudienceEq == <<"A","u","d","i","e","n","c","e","=">>
IndexEq == <<"I","n","d","e","x","=">>
CompositeEq == <<"C","o","m","p","o","s","i","t","e","=">>
PercentComma == <<"%",","," ">>
ProcessComplete == <<"P","r","o","c","e","s","s"," ","c","o","m","p","l","e","t","e","!"," ","C","h","a","r","t"," ","s","a","v","e","d"," ","a","s",":"," ","j","a","z","z","_","a","u","d","i","e","n","c","e","_","i","n","d","e","x",".","p","n","g">>

\* the communities the warehouse may return: name, PERC_AUDIENCE_DISPLAY in
\* tenths of a percent, PERC_INDEX and COMPOSITE_INDEX
ChartCommunities ==
    << [COMMUNITY |-> <<"L","i","v","e"," ","E","n","t","e","r","t","a","i","n","m","e","n","t"," ","S","e","e","k","e","r","s">>, tenths |-> 210, PERC_INDEX |-> 71, COMPOSITE_INDEX |-> 2500],
       [COMMUNITY |-> <<"G","a","m","e","r","s">>, tenths |-> 185, PERC_INDEX |-> 120, COMPOSITE_INDEX |-> 900],
       [COMMUNITY |-> <<"S","k","i","e","r","s">>, tenths |-> 150, PERC_INDEX |-> 8, COMPOSITE_INDEX |-> 75],
       [COMMUNITY |-> <<"D","e","a","l"," ","H","u","n","t","e","r","s">>, tenths |-> 307, PERC_INDEX |-> 45, COMPOSITE_INDEX |-> 310] >>

MaxCharted == 3

\* the query results: up to MaxCharted different communities in some order
ChartTables ==
    {t \in UNION {[1..n -> 1..Len(ChartCommunities)] : n \in 1..MaxCharted} :
        \A a, b \in DOMAIN t : a # b => t[a] # t[b]}

\* the line main of community_per_chart.py prints for a row
bullet_line(row) ==
    <<" ", " ", Bullet, " ">> \o row.COMMUNITY \o <<":", " ">>
    \o AudienceEq \o str_of_tenths(row.tenths) \o PercentComma
    \o IndexEq \o str_of(row.PERC_INDEX) \o PercentComma
    \o CompositeEq \o str_of(row.COMPOSITE_INDEX)

\* the line the comment in _save_community_data_from_output describes
summary_line(row) ==
    <<Bullet, " ">> \o row.COMMUNITY \o <<":", " ">>
    \o CompositeEq \o str_of(row.COMPOSITE_INDEX) \o <<",", " ">>
    \o IndexEq \o str_of(row.PERC_INDEX) \o PercentComma
    \o AudienceEq \o str_of_tenths(row.tenths) \o <<"%">>

\* what main of community_per_chart.py prints about the data, line by line
chart_script_stdout(df) ==
    << TotalRetrieved \o str_of(Len(df)) >>
    \o [k \in 1..Len(df) |-> bullet_line(df[k])]
    \o << ProcessComplete >>

\* an output with the section the parser looks for
summary_stdout(df) ==
    << TopCommunitiesHeader \o <<":">> >>
    \o [k \in 1..Len(df) |-> summary_line(df[k])]

\* parts[0] of line.split(":")
before_colon(line) ==
    IF contains(line, <<":">>)
    THEN SubSeq(line, 1, (CHOOSE i \in 1..Len(line) :
                             line[i] = ":" /\ \A j \in 1..(i - 1) : line[j] # ":") - 1)
    ELSE line

RECURSIVE run_of(_, _, _)
\* the longest run of characters of `class` in s from position i on
run_of(s, i, class) ==
    IF i <= Len(s) /\ s[i] \in class THEN <<s[i]>> \o run_of(s, i + 1, class) ELSE <<>>

DigitChars == {Digits[d] : d \in 1..10}

\* re.search(key + r'(<class>+)%', line): the group of the first match, <<>>
\* when there is no match
search_group(line, key, class) ==
    LET hits == {i \in 1..(Len(line) - Len(key) + 1) :
                    /\ SubSeq(line, i, i + Len(key) - 1) = key
                    /\ LET r == run_of(line, i + Len(key), class)
                       IN  /\ r # <<>>
                           /\ i + Len(key) + Len(r) <= Len(line)
                           /\ line[i + Len(key) + Len(r)] = "%"}
    IN  IF hits = {} THEN <<>>
        ELSE LET i == CHOOSE h \in hits : \A g \in hits : h <= g
             IN  run_of(line, i + Len(key), class)

\* the characters of s before its first full stop
before_dot(s) ==
    SubSeq(s, 1, (CHOOSE i \in 1..Len(s) :
                     s[i] = "." /\ \A j \in 1..(i - 1) : s[j] # ".") - 1)

\* float(s) of a match of [\d.]+, in tenths; -1 stands for the ValueError of
\* a text that is no number
tenths_of(s) ==
    IF ~contains(s, <<".">>) THEN 10 * int_of(s)
    ELSE LET whole == before_dot(s)
             frac == SubSeq(s, Len(whole) + 2, Len(s))
         IN  IF contains(frac, <<".">>) \/ (whole = <<>> /\ frac = <<>>) THEN -1
             ELSE 10 * int_of(whole) + (IF frac = <<>> THEN 0 ELSE digit_value(frac[1]))

RECURSIVE parse_lines(_, _, _)
\* the loop of _save_community_data_from_output over the lines left
parse_lines(lines, in_data_section, community_data) ==
    IF lines = <<>> THEN community_data
    ELSE LET line == Head(lines)
         IN  IF contains(line, TopCommunitiesHeader)
             THEN parse_lines(Tail(lines), TRUE, community_data)
             ELSE IF in_data_section /\ contains(line, <<Bullet>>)
                     /\ contains(line, <<":">>)
                     /\ search_group(line, IndexEq, DigitChars) # <<>>
             THEN parse_lines(Tail(lines), in_data_section,
                    Append(community_data,
                      [name |-> strip(replace(before_colon(line), Bullet, <<>>)),
                       index |-> int_of(search_group(line, IndexEq, DigitChars)),
                       audience |->
                          IF search_group(line, AudienceEq, DigitChars \cup {"."}) = <<>>
                          THEN 0
                          ELSE tenths_of(search_group(line, AudienceEq,
                                                      DigitChars \cup {"."}))]))
             ELSE parse_lines(Tail(lines), in_data_section, community_data)

\* main of community_per_chart.py ran and its output was captured
ChartScriptMain ==
    /\ stdout_from = ""
    /\ \E t \in ChartTables :
          /\ script_df' = [k \in DOMAIN t |-> ChartCommunities[t[k]]]
          /\ stdout' = chart_script_stdout([k \in DOMAIN t |-> ChartCommunities[t[k]]])
    /\ stdout_from' = "community_per_chart"
    /\ UNCHANGED <<parsed, community_json,
                   wrapVars, procVars, canvasVars, plateVars, pathVars, raceVars,
                   connVars, slideVars, qualVars>>

\* an output of the kind the parser was written for is captured
SummaryOutput ==
    /\ stdout_from = ""
    /\ \E t \in ChartTables :
          /\ script_df' = [k \in DOMAIN t |-> ChartCommunities[t[k]]]
          /\ stdout' = summary_stdout([k \in DOMAIN t |-> ChartCommunities[t[k]]])
    /\ stdout_from' = "summary"
    /\ UNCHANGED <<parsed, community_json,
                   wrapVars, procVars, canvasVars, plateVars, pathVars, raceVars,
                   connVars, slideVars, qualVars>>

\* _save_community_data_from_output(result.stdout)
SaveCommunityDataFromOutput ==
    /\ stdout_from # ""
    /\ ~parsed
    /\ parsed' = TRUE
    /\ LET community_data == parse_lines(stdout, FALSE, <<>>)
       IN  community_json' =
              IF community_data # <<>>
                 /\ \A k \in 1..Len(community_data) : community_data[k].audience # -1
              THEN community_data ELSE community_json
    /\ UNCHANGED <<script_df, stdout_from, stdout,
                   wrapVars, procVars, canvasVars, plateVars, pathVars, raceVars,
                   connVars, slideVars, qualVars>>

InitParse ==
    /\ wrap_idle
    /\ no_run
    /\ side_idle

NextParse ==
    \/ ChartScriptMain
    \/ SummaryOutput
    \/ SaveCommunityDataFromOutput

SpecParse == InitParse /\ [][NextParse]_vars

\* ------------------------------------------------ merchant qualification
AUDIENCE_COUNT_THRESHOLD == 100
PERC_AUDIENCE_THRESHOLD == Rat(10, 100)

\* a count check that lets the threshold itself pass
check_qualification_from_threshold(audience_count, perc_audience) ==
    LET meets_count == audience_count >= AUDIENCE_COUNT_THRESHOLD
        meets_perc == RGe(perc_audience, PERC_AUDIENCE_THRESHOLD)
    IN  IF ~meets_count THEN <<FALSE, "LOW_AUDIENCE_COUNT">>
        ELSE IF ~meets_perc THEN <<FALSE, "LOW_PERC_AUDIENCE">>
        ELSE <<TRUE, "MEETS_CRITERIA">>

\* check_qualification(audience_count, perc_audience)
check_qualification(audience_count, perc_audience) ==
    LET meets_count == audience_count > AUDIENCE_COUNT_THRESHOLD
        meets_perc == RGe(perc_audience, PERC_AUDIENCE_THRESHOLD)
    IN  IF ~meets_count THEN <<FALSE, "LOW_AUDIENCE_COUNT">>
        ELSE IF ~meets_perc THEN <<FALSE, "LOW_PERC_AUDIENCE">>
        ELSE <<TRUE, "MEETS_CRITERIA">>

\* AUDIENCE_COUNT and MERCHANT_PERC_AUDIENCE values of the merchant rows, on
\* both sides of each threshold and on it
AudienceCounts == {0, 1, 50, 99, 100, 101, 102, 1000, 5000}
PercAudiences ==
    {Rat(n, 1000) : n \in {0, 1, 50, 90, 99, 100, 101, 110, 150, 200, 250, 999, 1000}}

\* for _, row in wheel_data_df.iterrows(): qualifies, reason = check_qualification(...)
CheckQualification ==
    \E audience_count \in AudienceCounts, perc_audience \in PercAudiences :
        /\ row_AUDIENCE_COUNT' = audience_count
        /\ row_PERC_AUDIENCE' = perc_audience
        /\ qualifies' = check_qualification(audience_count, perc_audience)[1]
        /\ reason' = check_qualification(audience_count, perc_audience)[2]
        /\ UNCHANGED <<wrapVars, procVars, canvasVars, plateVars, pathVars, raceVars,
                       connVars, slideVars, parseVars>>

InitQual ==
    /\ wrap_idle
    /\ no_run
    /\ side_idle

NextQual == CheckQualification

SpecQual == InitQual /\ [][NextQual]_vars

\* merchant names as the warehouse may carry them
KeySet ==
    { <<"R","i","p"," ","C","u","r","l">>,
      <<"R","i","p","C","u","r","l">>,
      <<"r","i","p","_","c","u","r","l">>,
      <<"M","a","c","y","'","s">>,
      <<"M","a","c","y","s">>,
      <<"K","o","h","l","'","s",","," ","I","n","c">>,
      <<"k","o","h","l","s","_","i","n","c">>,
      <<"R","E","I">> }

\* no logo loop has run
InitPath ==
    /\ wrap_idle
    /\ side_idle
    /\ no_run

\* the logo loop of one generator builds the file path of two merchants
BuildPaths ==
    /\ path_variant = ""
    /\ \E v \in {"brand", "dynamic", "professional"}, a, b \in KeySet :
          /\ path_variant' = v
          /\ key1' = a
          /\ key2' = b
          /\ path1' = filepath(v, a)
          /\ path2' = filepath(v, b)
    /\ UNCHANGED <<wrapVars, procVars, canvasVars, plateVars, raceVars, moreVars>>

NextPath == BuildPaths

SpecPath == InitPath /\ [][NextPath]_vars

CallFormatBehaviorText ==
    /\ formatter = ""
    /\ \E c \in CommunitySet, m \in MerchantSet :
        /\ community' = c
        /\ merchant' = m
        /\ behavior' = format_behavior_text(c, m)
    /\ formatter' = "format_behavior_text"
    /\ UNCHANGED <<category, row_behavior, procVars, canvasVars, sideVars>>

CallSimpleBehaviorText ==
    /\ formatter = ""
    /\ \E cat \in CategorySet, m \in MerchantSet :
        /\ category' = cat
        /\ merchant' = m
        /\ behavior' = simple_behavior_text(m, cat)
    /\ formatter' = "simple_behavior_text"
    /\ UNCHANGED <<community, row_behavior, procVars, canvasVars, sideVars>>

CallFormattedText ==
    /\ formatter = ""
    /\ \E b \in BehaviorSet :
        /\ row_behavior' = b
        /\ behavior' = formatted_text(b)
    /\ formatter' = "generate_professional_wheel"
    /\ UNCHANGED <<community, category, merchant, procVars, canvasVars, sideVars>>

\* generate_behavior_text of the dynamic generator from the point where the
\* completion service has answered with `content`; `behavior = text` names a
\* variable that does not exist, and the NameError is caught by the except
\* branch, which returns the fallback
generate_behavior_text(m, cat, content) ==
    LET words == split(strip(content))
        mid == Len(words) \div 2
    IN  IF Len(words) >= 3
        THEN join(<<SP>>, slice(words, 0, mid)) \o <<NL>>
             \o join(<<SP>>, slice(words, mid, Len(words)))
        ELSE IF Len(words) = 2 THEN words[1] \o <<NL>> \o words[2]
        ELSE simple_behavior_text(m, cat)

\* the words a completion may be made of
CompletionWords == <<<<"F","i","l","l","s">>, <<"u","p">>, <<"a","t">>, <<"t","h","e">>, <<"S","h","e","l","l">>>>

\* response.choices[0].message.content: phrases of no word up to five, bare
\* or with white space around them
CompletionSet ==
    {join(<<SP>>, SubSeq(CompletionWords, 1, n)) : n \in 0..Len(CompletionWords)}
    \cup {<<SP>> \o join(<<SP>>, SubSeq(CompletionWords, 1, n)) \o <<NL>> :
             n \in 0..Len(CompletionWords)}

CallGenerateBehaviorText ==
    /\ formatter = ""
    /\ \E cat \in CategorySet, m \in MerchantSet, content \in CompletionSet :
        /\ category' = cat
        /\ merchant' = m
        /\ row_behavior' = content
        /\ behavior' = generate_behavior_text(m, cat, content)
    /\ formatter' = "generate_behavior_text"
    /\ UNCHANGED <<community, procVars, canvasVars, sideVars>>

NextCompletion == CallGenerateBehaviorText

SpecCompletion == InitWrap /\ [][NextCompletion]_vars

NextWrap == CallFormatBehaviorText \/ CallSimpleBehaviorText \/ CallFormattedText

SpecWrap == InitWrap /\ [][NextWrap]_vars

\* ---- the formatting claims
RECURSIVE linesAcc(_, _, _)
linesAcc(s, cur, acc) ==
    IF s = <<>> THEN Append(acc, cur)
    ELSE IF Head(s) = NL THEN linesAcc(Tail(s), <<>>, Append(acc, cur))
    ELSE linesAcc(Tail(s), Append(cur, Head(s)), acc)

\* the lines of a rendered text: the pieces between line breaks, empty ones kept
lines(s) == linesAcc(s, <<>>, <<>>)

\* the words of each line
line_words(s) == [i \in 1..Len(lines(s)) |-> split(lines(s)[i])]

\* the word sequence the called routine was given to wrap
phrase_words ==
    CASE formatter = "format_behavior_text" ->
            split(APPROVED_COMMUNITIES_get(strip(community), ShopsAt) \o <<SP>> \o merchant)
      [] formatter = "simple_behavior_text" ->
            split((IF category # <<>> THEN verb_lookup(category, 1) ELSE ShopsAt)
                  \o <<SP>> \o merchant)
      [] formatter = "generate_professional_wheel" -> split(row_behavior)
      [] OTHER -> <<>>

\* words[0:k] on line 1 and words[k:] on line 2
split_at(ws, k) == <<SubSeq(ws, 1, k), SubSeq(ws, k + 1, Len(ws))>>

ShopsAtAutoZone == <<Shops, <<"a","t">>, AutoZone>>
FanOfCollegeSports == <<<<"F","a","n">>, <<"o","f">>, College, Sports>>

\* C7 (the claim as stated): a phrase of two or more words comes back as exactly
\* two non-empty lines holding all its words in order, and a one-word phrase
\* comes back as that word with no line break.
C7_TwoLinesOrTheWord ==
    formatter # "" =>
        LET ws == phrase_words
        IN  /\ Len(ws) >= 2 =>
                /\ Len(lines(behavior)) = 2
                /\ \A i \in 1..2 : line_words(behavior)[i] # <<>>
                /\ split(behavior) = ws
            /\ Len(ws) = 1 => (strip(behavior) = ws[1] /\ Len(lines(behavior)) = 1)

\* C7, the part that holds in every routine: two or more words give two
\* non-empty lines with the words in order.
C7_TwoWordsOrMore ==
    (formatter # "" /\ Len(phrase_words) >= 2) =>
        /\ Len(lines(behavior)) = 2
        /\ \A i \in 1..2 : line_words(behavior)[i] # <<>>
        /\ split(behavior) = phrase_words

\* C8 (the claim as stated): ["Shops","at","AutoZone"] wraps to "Shops at" over
\* "AutoZone".
C8_ShopsAtOverAutoZone ==
    (formatter # "" /\ phrase_words = ShopsAtAutoZone) =>
        line_words(behavior) = split_at(ShopsAtAutoZone, 2)

\* C8 (amended): format_behavior_text and generate_professional_wheel split
\* ["Shops","at","AutoZone"] at floor(3/2) = 1, giving "Shops" over
\* "at AutoZone"; only simple_behavior_text gives "Shops at" over "AutoZone".
C8_ShopsOverAtAutoZone ==
    (formatter # "" /\ phrase_words = ShopsAtAutoZone) =>
        line_words(behavior) =
            IF formatter = "simple_behavior_text"
            THEN split_at(ShopsAtAutoZone, 2) ELSE split_at(ShopsAtAutoZone, 1)

C8_Witness ==
    /\ formatter = "generate_professional_wheel"
    /\ phrase_words = ShopsAtAutoZone
    /\ Len(lines(behavior)) = 2

\* the split index the wrapping rule of C9 gives: floor(n/2), less one when
\* words[m-1] has at most 3 characters
C9_rule_index(ws) ==
    LET m == Len(ws) \div 2
    IN  IF Len(ws[(m - 1) + 1]) <= 3 THEN m - 1 ELSE m

\* C9 (the claim as stated): every routine splits a phrase of three or more
\* words at the index of the rule, and ["Fan","of","College","Sports"] comes
\* back as "Fan" over "of College Sports".
C9_SameRuleEverywhere ==
    (formatter # "" /\ Len(phrase_words) >= 3) =>
        /\ line_words(behavior) = split_at(phrase_words, C9_rule_index(phrase_words))
        /\ phrase_words = FanOfCollegeSports =>
                line_words(behavior) = split_at(FanOfCollegeSports, 1)

\* the split index each routine uses on n >= 3 words
C9_index_of(f, ws) ==
    LET m == Len(ws) \div 2
    IN  CASE f = "generate_professional_wheel" ->
                IF Len(ws) > 3 /\ Len(ws[(m - 1) + 1]) <= 3 THEN m - 1 ELSE m
          [] f = "format_behavior_text" -> m
          [] OTHER -> 2

\* C9 (amended): generate_professional_wheel splits n >= 3 words at floor(n/2),
\* moved left by one only when n > 3 and words[m-1] has at most 3 characters, so
\* ["Fan","of","College","Sports"] gives "Fan" over "of College Sports" there;
\* format_behavior_text splits at floor(n/2) with no shift, and
\* simple_behavior_text always splits after the second word.
C9_RulePerRoutine ==
    (formatter # "" /\ Len(phrase_words) >= 3) =>
        /\ line_words(behavior) = split_at(phrase_words, C9_index_of(formatter, phrase_words))
        /\ (formatter = "generate_professional_wheel" /\ phrase_words = FanOfCollegeSports) =>
                line_words(behavior) = split_at(FanOfCollegeSports, 1)

C9_Witness ==
    /\ formatter = "generate_professional_wheel"
    /\ phrase_words = FanOfCollegeSports
    /\ line_words(behavior) = split_at(FanOfCollegeSports, 1)

\* ------------------------------------------------------------ resolution
\* the steps download_or_generate_logo has attempted for the row at hand
C1_attempted ==
    [k \in 1..Len(tried) |-> tried[k].step]
        \o (IF pc = "resolve" THEN <<step>> ELSE <<>>)

is_prefix(s, t) == Len(s) <= Len(t) /\ s = SubSeq(t, 1, Len(s))

\* every attempted step but the last has failed, and nothing follows a success
C1_each_after_failure ==
    /\ \A k \in 1..Len(tried) : tried[k].ok => k = Len(tried) /\ pc # "resolve"
    /\ \A k \in 1..(Len(C1_attempted) - 1) : ~tried[k].ok

\* C1 (the claim as stated): the steps attempted for a key with no cached file
\* are, in this order, the primary lookup, the secondary lookup and the letter
\* placeholder, each attempted only after every earlier one has failed.
C1_PrimarySecondaryLetter ==
    /\ is_prefix(C1_attempted, <<"brandfetch", "clearbit", "letter">>)
    /\ C1_each_after_failure

\* C1 (amended): the Brandfetch lookup is a step only for the brand generator
\* built with a Brandfetch API key; otherwise resolution starts at Clearbit.
\* The steps that exist are attempted in order, each only after every step
\* attempted before it has failed, and none after a success.
C1_OrderOfConfiguredSteps ==
    /\ is_prefix(C1_attempted,
          (IF variant = "brand" /\ brandfetch_api THEN <<"brandfetch">> ELSE <<>>)
              \o <<"clearbit", "letter">>)
    /\ C1_each_after_failure

\* both lookups failed and the placeholder was drawn
C1_Witness ==
    tried = << [step |-> "brandfetch", ok |-> FALSE],
               [step |-> "clearbit", ok |-> FALSE],
               [step |-> "letter", ok |-> TRUE] >>

\* C2: when the file of a key is already in logos/, the logo loop issues no
\* request for it and starts no lookup, and the path it records for a key is
\* the path recorded the first time the key was resolved, in every render.
C2_WarmCacheHit ==
    /\ hit => requests = 0 /\ tried = <<>> /\ pc # "resolve"
    /\ \A k \in 1..Len(wheel_data_df) :
          wheel_data_df[k].logo_path # <<>> =>
              /\ wheel_data_df[k].logo_path = first_path[wheel_data_df[k].MERCHANT]
              /\ exists(wheel_data_df[k].logo_path)

\* a second render found the file the first render left
C2_Witness ==
    /\ renders = 2
    /\ hit
    /\ pc = "jazz"
    /\ wheel_data_df[1].logo_path = first_path[wheel_data_df[1].MERCHANT]

\* C3 (the claim as stated): resolution never raises, and every path it
\* records names an existing file that decodes as an image.
C3_AlwaysUsableFile ==
    /\ pc # "raised"
    /\ \A k \in 1..Len(wheel_data_df) :
          wheel_data_df[k].logo_path # <<>> =>
              Decodes(logos[wheel_data_df[k].logo_path])

\* ------------------------------------------------------------ drawing
num_items == Len(wheel_data_df)

\* the first letters of the first two words of a name, in upper case
C4_two_initials(name) ==
    LET ws == split(name)
    IN  IF Len(ws) = 0 THEN <<>>
        ELSE IF Len(ws) = 1 THEN <<upperChar(ws[1][1])>>
        ELSE <<upperChar(ws[1][1]), upperChar(ws[2][1])>>

\* C4: a row whose logo file PIL cannot read is drawn with the initials of its
\* merchant, every other row with its image, each at its own sector; no
\* unreadable file stops the drawing: generate_wheel is always at a statement
\* it can execute, until the figure is saved.
C4_InitialsForThatSegmentOnly ==
    /\ \A k \in 1..Len(logo_artists) :
          LET row == wheel_data_df[k]
          IN  /\ logo_artists[k].angle = center_angle(k - 1, num_items)
              /\ IF Decodes(logos[row.logo_path])
                 THEN logo_artists[k].mode = "image"
                 ELSE /\ logo_artists[k].mode = "initials"
                      /\ logo_artists[k].text = C4_two_initials(row.MERCHANT)
    /\ pc \in {"logos", "jazz", "wedges", "dividers", "arrows", "center",
                "content", "save", "done"}
    /\ pc \in {"logos", "wedges", "dividers", "arrows", "content"} =>
          row_i < num_items
    /\ pc = "content" => Len(logo_artists) = row_i
    /\ pc \in {"save", "done"} => Len(logo_artists) = num_items
    /\ pc = "done" => output_file

\* a wheel was saved with one row drawn as initials and another as its image
C4_Witness ==
    /\ pc = "done"
    /\ output_file
    /\ Cardinality({k \in 1..Len(logo_artists) : logo_artists[k].mode = "initials"}) = 1
    /\ \E k \in 1..Len(logo_artists) : logo_artists[k].mode = "image"

\* the full wedge of sector k (0-based) on the canvas
C5_sector(k) == wedges[2 * k + 1]

C5_width(k) == RSub(C5_sector(k).theta2, C5_sector(k).theta1)

RECURSIVE C5_total(_)
C5_total(n) == IF n = 0 THEN Int2Rat(0) ELSE RAdd(C5_total(n - 1), C5_width(n - 1))

\* C5: every sector drawn is 360/N wide whatever the PERC_INDEX of its row,
\* each sector ends where the next begins, and the N widths add up to 360.
C5_EqualSectors ==
    /\ \A k \in 0..(Len(wedges) \div 2 - 1) :
          /\ C5_width(k) = Rat(360, num_items)
          /\ k > 0 => C5_sector(k - 1).theta2 = C5_sector(k).theta1
    /\ Len(wedges) = 2 * num_items => C5_total(num_items) = Int2Rat(360)

\* seven sectors, whose width is no whole number of degrees, were drawn
C5_Witness ==
    /\ num_items = 7
    /\ Len(wedges) = 14
    /\ wheel_data_df[1].PERC_INDEX # wheel_data_df[7].PERC_INDEX

\* the bearing, clockwise from the top, of the direction matplotlib draws at
\* `theta` (counter-clockwise from the +x axis, y upwards)
C6_bearing(theta) == RMod360(RSub(Int2Rat(90), theta))

\* C6 (the claim as stated): sector i covers the arc from i*360/N to
\* (i+1)*360/N measured clockwise from the top of the wheel.
C6_ClockwiseFromTop ==
    \A k \in 0..(Len(wedges) \div 2 - 1) :
        num_items > 1 =>
            /\ C6_bearing(C5_sector(k).theta2)
                 = RMod360(RMul(Int2Rat(k), Rat(360, num_items)))
            /\ C6_bearing(C5_sector(k).theta1)
                 = RMod360(RMul(Int2Rat(k + 1), Rat(360, num_items)))

C11_PairwiseSimilarNotWhite ==
    corners # <<>> =>
        /\ has_colored_bg <=>
              /\ \A a, b \in 1..4, ch \in 1..3 :
                    corners[a][ch] - corners[b][ch] < 30
              /\ \E ch \in 1..3 : corners[1][ch] <= 240
        /\ has_colored_bg <=> bg_color = corners[1]
        /\ corners = <<<<10, 10, 10>>, <<10, 10, 10>>, <<10, 10, 10>>, <<10, 10, 10>>>>
              => has_colored_bg
        /\ corners = <<<<250, 250, 250>>, <<250, 250, 250>>, <<250, 250, 250>>,
                       <<250, 250, 250>>>>
              => ~has_colored_bg

\* ------------------------------------------------------------ lookups
\* the candidate domains of the lookup in progress
C12_domains ==
    IF step = "brandfetch" THEN brandfetch_domains(cur_merchant)
    ELSE clearbit_domains(variant, cur_merchant)

\* a request that has just failed leaves the cache alone and hands over to
\* the next candidate, or to the next step after the last candidate
C12_moves_on ==
    /\ logos' = logos
    /\ pc' = "resolve"
    /\ IF cand < Len(C12_domains)
       THEN step' = step /\ cand' = cand + 1
       ELSE cand' = 1 /\ step' = (IF step = "brandfetch" THEN "clearbit" ELSE "letter")

\* C12: within one download_or_generate_logo call no lookup (service, domain)
\* is sent twice, and a request that ends in an exception (network error,
\* timeout) is followed by just what follows a non-200 answer: no write to
\* logos/, and the next candidate or the next step; no lookup raises.
C12_FailedRequestMovesOn ==
    /\ [](/\ \A a, b \in 1..Len(asked) : asked[a] = asked[b] => a = b
          /\ pc = "raised" => step = "letter")
    /\ [][asked' # asked /\ asked' # <<>>
            /\ last_response'.status \in {"exception", "404"} => C12_moves_on]_vars

\* three Brandfetch candidates timed out or failed and Clearbit is next
C12_Witness ==
    /\ Len(asked) = 3
    /\ last_response.status = "exception"
    /\ pc = "resolve"
    /\ step = "clearbit"
    /\ cand = 1
    /\ no_file(cur_path)

\* ------------------------------------------------------------ cache paths
\* a name in lower case with every space, apostrophe and comma removed
C13_stripped(key) ==
    LET keep == SelectSeq(key, LAMBDA c : c \notin {" ", "'", ","})
    IN  [k \in 1..Len(keep) |-> lowerChar(keep[k])]

\* C13 (the claim as stated): the cache path of a key is logos/ and the key in
\* lower case with every space, apostrophe and comma removed; two keys have
\* the same path exactly when these forms are equal.
C13_PathIsStrippedKey ==
    path_variant # "" =>
        /\ path1 = LogoDir \o C13_stripped(key1) \o DotPng
        /\ path1 = path2 <=> C13_stripped(key1) = C13_stripped(key2)

\* a name character by character: lower case, a space as an underscore, no
\* apostrophe, and no comma except in the professional generator
C13_file_stem(v, key) ==
    LET keep == SelectSeq(key, LAMBDA c : c # "'" /\ (c # "," \/ v = "professional"))
    IN  [k \in 1..Len(keep) |-> IF keep[k] = " " THEN "_" ELSE lowerChar(keep[k])]

\* C13 (amended): the cache path of a key depends on the key alone within one
\* generator: logos/, then the key in lower case with every space replaced by
\* an underscore and every apostrophe removed (commas removed too, except in
\* the professional generator), then .png; two keys have the same path
\* exactly when these forms are equal.
C13_PathIsUnderscoredKey ==
    path_variant # "" =>
        /\ path1 = LogoDir \o C13_file_stem(path_variant, key1) \o DotPng
        /\ path2 = LogoDir \o C13_file_stem(path_variant, key2) \o DotPng
        /\ path1 = path2 <=>
              C13_file_stem(path_variant, key1) = C13_file_stem(path_variant, key2)

\* two different names, one with a space, share one cache file
C13_Witness ==
    /\ key1 = <<"R","i","p"," ","C","u","r","l">>
    /\ key2 = <<"r","i","p","_","c","u","r","l">>
    /\ path1 = path2

\* the domains the current call has asked `service` for, in order
C14_asked_of(service) ==
    LET mine == SelectSeq(asked, LAMBDA a : a.service = service)
    IN  [k \in 1..Len(mine) |-> mine[k].domain]

\* the lookups that have returned False have gone through `n` candidates, and
\* nothing was asked after a lookup returned True
C14_all_before_giving_up(service, n) ==
    \A k \in 1..Len(tried) :
        tried[k].step = service =>
            /\ ~tried[k].ok => Len(C14_asked_of(service)) = n
            /\ tried[k].ok => asked[Len(asked)].service = service /\ pc # "resolve"

\* the row the lookups on record were sent for: the row being resolved, or
\* the row the logo loop has just left
C14_row ==
    IF pc \in {"resolve", "raised"} THEN row_i + 1
    ELSE IF pc = "logos" /\ row_i > 0 THEN row_i ELSE Len(wheel_data_df)

\* its normalized key
C14_key == C13_stripped(wheel_data_df[C14_row].MERCHANT)

\* C14 (the claim as stated): each lookup asks for key.com, key.net, key.org
\* in this order, key being the normalized merchant name, and stops at the
\* first accepted answer; the secondary lookup asks for the same candidates
\* as the primary.
C14_ComNetOrgInBoth ==
    asked # <<>> =>
        \A service \in {"brandfetch", "clearbit"} :
            /\ is_prefix(C14_asked_of(service),
                         <<C14_key \o DotCom, C14_key \o DotNet, C14_key \o DotOrg>>)
            /\ C14_all_before_giving_up(service, 3)

\* what Clearbit is asked for by the running generator
C14_clearbit_candidates ==
    IF variant = "dynamic"
    THEN LET key == SelectSeq(C14_key, LAMBDA c : c # ".")
         IN  <<key \o DotCom, Www \o key \o DotCom, key \o DotNet, key \o DotOrg>>
    ELSE <<C14_key \o DotCom, C14_key \o DotNet>>

\* C14 (amended): the Brandfetch lookup asks for key.com, key.net, key.org in
\* this order; the Clearbit lookup of the brand generator asks for key.com and
\* key.net only, that of the dynamic generator for key.com, www.key.com,
\* key.net, key.org (its key has the full stops removed as well). Each lookup
\* stops at the first accepted answer and gives up only after its last
\* candidate.
C14_CandidatesPerLookup ==
    asked # <<>> =>
        /\ is_prefix(C14_asked_of("brandfetch"),
                     <<C14_key \o DotCom, C14_key \o DotNet, C14_key \o DotOrg>>)
        /\ C14_all_before_giving_up("brandfetch", 3)
        /\ is_prefix(C14_asked_of("clearbit"), C14_clearbit_candidates)
        /\ C14_all_before_giving_up("clearbit", Len(C14_clearbit_candidates))

\* the brand generator has gone through all its candidates of both services
C14_Witness ==
    /\ variant = "brand"
    /\ Len(C14_asked_of("brandfetch")) = 3
    /\ Len(C14_asked_of("clearbit")) = 2
    /\ step = "letter"
    /\ pc = "resolve"

\* the answer on record is a 200 with an image content type and a body
C15_image_with_body ==
    /\ last_response.status = "200"
    /\ last_response.ctype = "image"
    /\ last_response.body # "empty"

\* C15 (the claim as stated): a lookup reports success, and the cache file of
\* the row is written by a lookup, only for an answer that is image-typed and
\* not empty; any other answer leaves the call in its fallback chain.
C15_ImageTypedNonEmptyOnly ==
    asked # <<>> =>
        LET by_letter == \E k \in 1..Len(tried) : tried[k].step = "letter"
            by_lookup == \E k \in 1..Len(tried) :
                            tried[k].ok /\ tried[k].step # "letter"
        IN  /\ by_lookup => C15_image_with_body
            /\ exists(filepath(variant, wheel_data_df[C14_row].MERCHANT)) /\ ~by_letter
                  => C15_image_with_body
            /\ ~C15_image_with_body => pc \in {"resolve", "raised"} \/ by_letter

\* the process skipped the lookups because it found the file
C16_found_file(p) == proc_pc[p] \in {"draw", "done"} /\ proc_content[p] = <<>>

\* C16 (the claim as stated): when two processes resolve one key on an empty
\* cache, the file finally holds the complete content of the last writer, both
\* processes had the same content to write, and a process that found the file
\* present reads a complete image.
C16_LastWriterComplete ==
    /\ (\A p \in Procs : proc_pc[p] = "done") /\ last_writer # 0
          => cache_file = proc_content[last_writer]
    /\ \A p, q \in Procs :
          proc_content[p] # <<>> /\ proc_content[q] # <<>>
              => proc_content[p] = proc_content[q]
    /\ \A p \in Procs :
          C16_found_file(p) /\ proc_pc[p] = "done" => proc_seen[p] \in RaceContents

\* the weaker statements, each on its own, for the record of what fails
C16_final_is_last_writer ==
    (\A p \in Procs : proc_pc[p] = "done") /\ last_writer # 0
        => cache_file = proc_content[last_writer]

C16_reader_sees_whole ==
    \A p \in Procs :
        C16_found_file(p) /\ proc_pc[p] = "done" => proc_seen[p] \in RaceContents

\* rows j and k of the table have the same cache file
C17_same_key(j, k) ==
    filepath(variant, wheel_data_df[j].MERCHANT) = filepath(variant, wheel_data_df[k].MERCHANT)

\* an earlier row of the table has the key of row k
C17_repeats(k) == \E j \in 1..(k - 1) : C17_same_key(j, k)

\* C17: in a render whose table repeats a merchant, the lookup chain runs only
\* for a row no earlier row has the key of; a row that repeats a key finds the
\* file, sends no request and records the path of the earlier row; every row,
\* repeated or not, is drawn in a sector of its own.
C17_ChainOncePerKey ==
    /\ pc = "resolve" \/ asked # <<>> \/ requests > 0 \/ tried # <<>>
          => ~C17_repeats(C14_row)
    /\ (pc = "jazz" \/ (pc = "logos" /\ row_i > 0)) /\ C17_repeats(C14_row)
          => /\ hit
             /\ requests = 0
             /\ asked = <<>>
             /\ \A j \in 1..(C14_row - 1) :
                   C17_same_key(j, C14_row)
                       => wheel_data_df[j].logo_path = wheel_data_df[C14_row].logo_path
    /\ pc = "done"
          => /\ Len(logo_artists) = num_items
             /\ Len(wedges) = 2 * num_items
             /\ \A k \in 1..num_items :
                   /\ logo_artists[k].angle = center_angle(k - 1, num_items)
                   /\ \A j \in 1..(k - 1) :
                         /\ logo_artists[j].angle # logo_artists[k].angle
                         /\ C5_sector(j - 1) # C5_sector(k - 1)

\* the last row repeats the merchant of an earlier row and found the letter
\* logo the chain made for that row in this render
C17_Witness ==
    /\ pc = "jazz"
    /\ hit
    /\ C17_repeats(num_items)
    /\ logos[wheel_data_df[num_items].logo_path] = "letter"

\* the steps the logo loop can take for a merchant: the existence check,
\* every candidate domain of both lookups, the letter logo
C18_row_steps(m) ==
    2 + Len(brandfetch_domains(m)) + Len(clearbit_domains(variant, m))

RECURSIVE C18_rows_left(_, _)
C18_rows_left(df, k) ==
    IF k > Len(df) THEN 0
    ELSE C18_row_steps(df[k].MERCHANT) + C18_rows_left(df, k + 1)

\* the steps download_or_generate_logo can still take for merchant m at
\* candidate c of step st
C18_chain_left(m, st, c) ==
    LET bf == Len(brandfetch_domains(m))
        cb == Len(clearbit_domains(variant, m))
    IN  IF st = "brandfetch" THEN (bf - c + 1) + cb + 1
        ELSE IF st = "clearbit" THEN (cb - c + 1) + 1
        ELSE 1

\* an upper bound of the steps generate_wheel can still take at stage p, row
\* index i, step st and candidate c of a render over df
C18_steps_left(p, i, st, c, df) ==
    LET n == Len(df)
    IN  CASE p = "logos"    -> C18_rows_left(df, i + 1) + 4 * n + 3
          [] p = "resolve"  -> C18_rows_left(df, i + 2)
                               + C18_chain_left(df[i + 1].MERCHANT, st, c) + 4 * n + 3
          [] p = "jazz"     -> 4 * n + 3
          [] p = "wedges"   -> 4 * n + 2 - i
          [] p = "dividers" -> 3 * n + 2 - i
          [] p = "arrows"   -> 2 * n + 2 - i
          [] p = "center"   -> n + 2
          [] p = "content"  -> n + 1 - i
          [] p = "save"     -> 1
          [] OTHER          -> 0

C18_rank == C18_steps_left(pc, row_i, step, cand, wheel_data_df)

\* generate_wheel is at a statement it can execute
C18_can_step ==
    \/ pc \in {"logos", "jazz", "wedges", "dividers", "arrows", "center",
                "content", "save"} /\ row_i < num_items
    \/ /\ pc = "resolve"
       /\ row_i < num_items
       /\ \/ step = "brandfetch" /\ cand \in 1..Len(brandfetch_domains(cur_merchant))
          \/ step = "clearbit" /\ cand \in 1..Len(clearbit_domains(variant, cur_merchant))
          \/ step = "letter"

\* C18: a render over N >= 1 rows ends, saved or raised: until then it is at
\* a statement it can execute, and every step lowers a bound of the steps left;
\* for one row each lookup asks each of its candidate domains at most once, and
\* no more HTTP requests are sent than two per Brandfetch candidate (the brand
\* and its logo file) and one per Clearbit candidate.
C18_RenderTerminates ==
    /\ [](/\ num_items >= 1
          /\ pc \notin {"done", "raised"} => C18_can_step
          /\ pc = "done" => output_file
          /\ C18_rank >= 0
          /\ \A a, b \in 1..Len(asked) : a # b => asked[a] # asked[b]
          /\ pc \in {"resolve", "raised"} =>
                /\ Len(asked) <= Len(brandfetch_domains(cur_merchant))
                                   + Len(clearbit_domains(variant, cur_merchant))
                /\ requests <= 2 * Len(brandfetch_domains(cur_merchant))
                                 + Len(clearbit_domains(variant, cur_merchant)))
    /\ [][pc \notin {"done", "raised"} =>
            C18_steps_left(pc', row_i', step', cand', wheel_data_df') < C18_rank]_vars

\* a render was saved after a fallback chain had run to its letter logo, and
\* after every candidate domain of Clearbit had been asked
C18_Witness ==
    /\ pc = "done"
    /\ output_file
    /\ \E k \in 1..num_items : logos[wheel_data_df[k].logo_path] = "letter"

\* C19 (the claim as stated): the logo and the behavior text of the k-th row
\* of the table are at the midpoint of the k-th sector, whatever the index
\* labels of the table, and the k-th line of the summary is that row.
C19_RowAtItsPosition ==
    /\ \A k \in 1..Len(logo_artists) :
          /\ logo_artists[k].angle = center_angle(k - 1, num_items)
          /\ texts[k].angle = center_angle(k - 1, num_items)
    /\ pc = "done" =>
          /\ Len(logo_artists) = num_items
          /\ \A k \in 1..num_items :
                /\ summary_csv[k].MERCHANT = wheel_data_df[k].MERCHANT
                /\ RAdd(C5_sector(k - 1).theta1, Rat(180, num_items)) = logo_artists[k].angle

\* C20: no step of any render changes or removes a file that is in logos/,
\* whatever its content; a row whose cached file does not decode is drawn as
\* initials, in the render that cached it and in every later one.
C20_CachedFileIsFinal ==
    /\ [][\A p \in PathSet : logos[p] # Absent => logos'[p] = logos[p]]_vars
    /\ [](\A k \in 1..Len(logo_artists) :
             ~Decodes(logos[wheel_data_df[k].logo_path])
                 => /\ logo_artists[k].mode = "initials"
                    /\ logo_artists[k].text = initials(wheel_data_df[k].MERCHANT))

\* a second render found a cached file that does not decode, left it as it
\* was and drew the initials
C20_Witness ==
    /\ renders = 2
    /\ pc = "done"
    /\ Len(logo_artists) = 1
    /\ logos[wheel_data_df[1].logo_path] \in {"svg", "empty"}
    /\ logo_artists[1].mode = "initials"
    /\ wheel_data_df[1].logo_path = first_path[wheel_data_df[1].MERCHANT]

\* ------------------------------------------------------------ snowflake_connection.py
\* the calls that construct a manager or reach for its connection
C21_entry_points ==
    {"SnowflakeConnectionManager", "with_snowflake_connection", "get_connection",
     "query_to_dataframe"}

\* C21 (the claim as stated): once the first construction has failed in
\* _setup_config, every later construction, get_connection and
\* query_to_dataframe raises that ValueError again and hands out no manager,
\* and no manager without a configuration is used to reach for a connection.
C21_ConfigErrorRepeats ==
    _initialized /\ _config = "None" /\ outcome.op \in C21_entry_points
        => /\ outcome.raised = "ValueError"
           /\ outcome.manager = 0

\* the driver connections that are open
C22_open == {c \in 1..MaxConns : driver[c] = "open"}

\* the calls that read the connection property
C22_accesses ==
    {"connection", "execute_query", "get_connection", "query_to_dataframe",
     "with_snowflake_connection"}

\* C22: at most one driver connection is open, and it is the one the manager
\* holds; a connection is opened only when the manager holds none or a closed
\* one; an access with an open connection held returns it and changes nothing;
\* a query closes no connection; the first access that returns a connection
\* after a close() returns one that was not open before.
C22_OneOpenConnection ==
    /\ [](/\ Cardinality(C22_open) <= 1
          /\ \A c \in C22_open : c = _connection)
    /\ [][(\E c \in 1..MaxConns : driver[c] = "unopened" /\ driver'[c] = "open")
             => /\ _connection = 0 \/ driver[_connection] = "closed"
                /\ outcome'.opened]_vars
    /\ [][calls' # calls /\ outcome'.op \in C22_accesses
             /\ _connection # 0 /\ driver[_connection] = "open"
             => /\ _connection' = _connection
                /\ driver' = driver
                /\ ~outcome'.opened
                /\ outcome'.returned \in {0, _connection}]_vars
    /\ [][calls' # calls /\ outcome'.op \in {"execute_query", "query_to_dataframe"}
             => \A c \in C22_open : driver'[c] = "open"]_vars
    /\ [][calls' # calls /\ outcome.op \in {"close", "close_connection"}
             /\ outcome.manager # 0 /\ outcome'.returned # 0
             => /\ outcome'.opened
                /\ driver[outcome'.returned] = "unopened"]_vars

\* a query was run on a second connection, opened after the first was closed
C22_Witness ==
    /\ outcome.op = "execute_query"
    /\ outcome.opened
    /\ outcome.returned = 2
    /\ driver[1] = "closed"
    /\ C22_open = {2}

\* C23: one manager object is ever created, every construction returns it,
\* and _setup_config runs at most once, whoever constructs.
C23_OneManagerOneSetup ==
    /\ objects <= 1
    /\ setup_calls <= 1
    /\ outcome.manager # 0 => outcome.manager = 1 /\ outcome.manager = _instance

\* the decorator was handed the manager get_connection had constructed; the
\* configuration was loaded once
C23_Witness ==
    /\ calls >= 3
    /\ _manager
    /\ held
    /\ outcome.op = "with_snowflake_connection"
    /\ outcome.manager = 1
    /\ setup_calls = 1
    /\ _config = "loaded"

\* ------------------------------------------------------------ ppt_generator.py
\* the steps of generate_complete_slide in their order
C24_order == <<"chart", "wheel", "slide">>

\* C24: the steps run in the order chart, wheel, slide; a step runs only
\* after every earlier one returned True; the call returns True only after
\* three successful steps; after a failed step it returns False at once,
\* no step follows and prs.save has not run.
C24_StepsInOrder ==
    /\ Len(steps) <= 3
    /\ \A k \in 1..Len(steps) :
          /\ steps[k].step = C24_order[k]
          /\ k > 1 => steps[k - 1].ok
          /\ ~steps[k].ok => /\ k = Len(steps)
                              /\ slide_pc = "returned"
                              /\ returned = "False"
                              /\ ~saved
    /\ returned = "True" =>
          /\ Len(steps) = 3
          /\ \A k \in 1..3 : steps[k].ok
          /\ saved
    /\ saved => returned = "True"
    /\ slide_pc = "returned" <=> returned # ""

\* a second call on the same generator stopped at the wheel although the
\* wheel image path of the first call is still set
C24_Witness ==
    /\ slide_runs = 2
    /\ wheel_image_path
    /\ steps = <<[step |-> "chart", ok |-> TRUE], [step |-> "wheel", ok |-> FALSE]>>
    /\ returned = "False"
    /\ ~saved

\* C25 (the claim as stated): after _save_community_data_from_output has
\* parsed the output of the community chart script, community_data.json
\* holds one record, with name, index and audience, for every community the
\* script printed.
C25_OneRecordPerCommunity ==
    parsed /\ stdout_from = "community_per_chart" =>
        /\ Len(community_json) = Len(script_df)
        /\ \A k \in 1..Len(community_json) :
              /\ community_json[k].name = script_df[k].COMMUNITY
              /\ community_json[k].index = script_df[k].PERC_INDEX
              /\ community_json[k].audience = script_df[k].tenths

\* the parser does what C25 says on an output that carries the section header
C25_holds_with_header ==
    parsed /\ stdout_from = "summary" =>
        /\ Len(community_json) = Len(script_df)
        /\ \A k \in 1..Len(community_json) :
              /\ community_json[k].name = script_df[k].COMMUNITY
              /\ community_json[k].index = script_df[k].PERC_INDEX
              /\ community_json[k].audience = script_df[k].tenths

\* C26 (the claim as stated): whatever text the completion service answers,
\* generate_behavior_text returns at most three words on at most two lines: the
\* first three words of a longer answer, and a one-word answer as it is.
C26_AtMostThreeWords ==
    formatter = "generate_behavior_text" =>
        LET words == split(strip(row_behavior))
        IN  /\ Len(split(behavior)) <= 3
            /\ Len(lines(behavior)) <= 2
            /\ Len(words) > 3 => split(behavior) = SubSeq(words, 1, 3)
            /\ Len(words) = 1 => behavior = words[1]

\* the part of C26 that fails for a long answer alone
C26_long_answer_is_cut ==
    formatter = "generate_behavior_text" /\ Len(split(strip(row_behavior))) > 3
        => Len(split(behavior)) <= 3

\* the part of C26 that fails for a one-word answer alone
C26_one_word_unchanged ==
    formatter = "generate_behavior_text" /\ Len(split(strip(row_behavior))) = 1
        => behavior = split(strip(row_behavior))[1]

\* ------------------------------------------------------------ arrow badges
\* the angle by which the heading of a badge's triangle is turned from the
\* radius through the badge: 90 is the tangent toward increasing angles, 270
\* the tangent toward decreasing angles
C27_turn(a) == RMod360(RSub(a.direction, a.angle))

\* C27 (the claim as stated): the badge on the boundary where sector i begins
\* points from the preceding sector into sector i, the direction in which the
\* input index grows. Sector i lies on the side of increasing angles of its
\* start boundary, so the tip has to head along the tangent turned +90 degrees.
C27_ArrowsFollowLayout ==
    \A k \in 1..Len(arrows) :
        /\ arrows[k].angle = C5_sector(k - 1).theta1
        /\ C27_turn(arrows[k]) = Int2Rat(90)

\* what the code draws: every tip heads toward decreasing angles, out of
\* sector i and into the sector before it
C27_arrows_point_back ==
    \A k \in 1..Len(arrows) :
        /\ arrows[k].angle = C5_sector(k - 1).theta1
        /\ C27_turn(arrows[k]) = Int2Rat(270)

\* a < b for two rationals
C28_less(a, b) == a.num * b.den < b.num * a.den

\* the radius at which the two tones of sector k (0-based) meet
C28_logo_ring(k) == RSub(wedges[2 * k + 2].r, wedges[2 * k + 2].width)

\* C28: the render draws one badge for each of the N sector boundaries, at the
\* angle of that boundary's dividing line and at no sector's midpoint, every
\* badge at the same radius, which lies strictly between the radius of the
\* logo ring and the outer radius, in each of the three generators.
C28_OneBadgePerBoundary ==
    /\ Len(arrows) <= num_items
    /\ pc \in {"content", "save", "done"} => Len(arrows) = num_items
    /\ \A k \in 1..Len(arrows) :
          /\ arrows[k].angle = dividers[k].angle
          /\ arrows[k].angle = C5_sector(k - 1).theta1
          /\ \A j \in 1..Len(arrows) :
                j # k => RMod360(arrows[j].angle) # RMod360(arrows[k].angle)
          /\ \A j \in 0..(num_items - 1) :
                RMod360(arrows[k].angle)
                    # RMod360(RMul(RAdd(C5_sector(j).theta1, C5_sector(j).theta2),
                                   Rat(1, 2)))
          /\ arrows[k].r = arrows[1].r
          /\ arrows[k].r = arrow_r(variant)
          /\ C28_less(C28_logo_ring(k - 1), arrows[k].r)
          /\ C28_less(logo_radius(variant), arrows[k].r)
          /\ C28_less(arrows[k].r, C5_sector(k - 1).r)

\* a professional wheel of ten sectors has all its badges
C28_Witness ==
    /\ variant = "professional"
    /\ num_items = 10
    /\ Len(arrows) = 10
    /\ Len(dividers) = 10


\* ------------------------------------------------- merchant qualification
\* C29: a checked row qualifies, with MEETS_CRITERIA, exactly when its audience
\* count is above 100 and its percentage is at least 0.10; otherwise the reason
\* is LOW_AUDIENCE_COUNT whenever the count is 100 or less, whatever the
\* percentage, and LOW_PERC_AUDIENCE only for a count above 100 with a
\* percentage below 0.10.
C29_Qualification ==
    reason # "" =>
        LET count_ok == row_AUDIENCE_COUNT > 100
            perc_ok == ~C28_less(row_PERC_AUDIENCE, Rat(1, 10))
        IN  /\ qualifies <=> (count_ok /\ perc_ok)
            /\ qualifies <=> reason = "MEETS_CRITERIA"
            /\ ~count_ok => reason = "LOW_AUDIENCE_COUNT"
            /\ reason = "LOW_PERC_AUDIENCE" <=> (count_ok /\ ~perc_ok)
            /\ reason \in {"MEETS_CRITERIA", "LOW_AUDIENCE_COUNT", "LOW_PERC_AUDIENCE"}

\* a row with exactly 100 in the audience and too low a percentage was turned
\* down for its count
C29_Witness ==
    /\ reason = "LOW_AUDIENCE_COUNT"
    /\ row_AUDIENCE_COUNT = 100
    /\ row_PERC_AUDIENCE = Rat(5, 100)


====
